---- MODULE Spec2Model ----
(***************************************************************************)
(* batchop: the undo / invocation ledger (db.py), the orchestrator         *)
(* BatchOp2 (batchop2.py) and the lazy file-set traversal (fileset2.py,    *)
(* filters.py), modelled as one sequential program acting on a file        *)
(* system and on the two ledger tables.                                    *)
(***************************************************************************)
EXTENDS Integers, Sequences, FiniteSets, TLC

(***************************************************************************)
(* Bounds of the model.                                                    *)
(***************************************************************************)
\* how many invocations (uuid4 values) are ever created in one behaviour
MaxInvocations == 2
\* the largest value int(time.time() * 1000) is read as
MaxTime == 1

(***************************************************************************)
(* Paths and the file system.  A path is a sequence of names; the file     *)
(* system is a function from the existing paths to what is there.          *)
(***************************************************************************)
Names == <<"a", "b", "d", ".h">>

\* BatchOp2.root, the directory the user is querying
Root == <<"root">>

\* self.directory / self._BACKUP_DIR
BackupDir == <<"backup">>

DIR == "dir"
FileKinds == {"file0", "file1"}

NoPath == <<>>

IsPrefix(p, q) == Len(p) <= Len(q) /\ SubSeq(q, 1, Len(p)) = p

\* Path.parent and Path.name
Parent(p) == SubSeq(p, 1, Len(p) - 1)
Basename(p) == p[Len(p)]

exists(fs, p) == p \in DOMAIN fs
is_dir(fs, p) == exists(fs, p) /\ fs[p] = DIR
is_file(fs, p) == exists(fs, p) /\ fs[p] \in FileKinds
st_size(fs, p) == IF fs[p] = "file0" THEN 0 ELSE 1

\* every existing path at or below p
Subtree(fs, p) == {q \in DOMAIN fs : IsPrefix(p, q)}

\* Path.iterdir(), in the order of Names
iterdir(fs, p) ==
    LET present == SelectSeq(Names, LAMBDA n : exists(fs, Append(p, n)))
    IN  [k \in 1..Len(present) |-> Append(p, present[k])]

\* the tree under the root: what a before/after snapshot compares
Tree(fs) == [q \in {x \in DOMAIN fs : IsPrefix(Root, x) /\ x /= Root} |-> fs[q]]

\* os.rename(src, dst) of an existing src onto a dst whose parent exists:
\* the whole subtree changes its prefix, a file at dst is replaced
os_rename(fs, src, dst) ==
    LET moved == Subtree(fs, src)
        NewName(q) == dst \o SubSeq(q, Len(src) + 1, Len(q))
        OldName(q) == src \o SubSeq(q, Len(dst) + 1, Len(q))
        kept == (DOMAIN fs) \ moved
        dom == kept \cup {NewName(q) : q \in moved}
    IN  [q \in dom |-> IF IsPrefix(dst, q) /\ OldName(q) \in moved
                       THEN fs[OldName(q)]
                       ELSE fs[q]]

\* shutil.move(src, dst): into dst when dst is another directory, else onto
\* dst by os.rename.  ok = FALSE stands for the exception it raises.
shutil_move(fs, src, dst) ==
    LET real_dst == IF is_dir(fs, dst) /\ src /= dst
                    THEN Append(dst, Basename(src)) ELSE dst
        fails == \/ ~exists(fs, src)
                 \/ is_dir(fs, dst) /\ src /= dst /\ exists(fs, real_dst)
                 \/ src /= real_dst /\ IsPrefix(src, real_dst)
                 \/ ~is_dir(fs, Parent(real_dst))
                 \/ src /= real_dst /\ is_dir(fs, src) /\ exists(fs, real_dst)
    IN  IF fails THEN [ok |-> FALSE, fs |-> fs]
        ELSE IF src = real_dst THEN [ok |-> TRUE, fs |-> fs]
        ELSE [ok |-> TRUE, fs |-> os_rename(fs, src, real_dst)]

\* Path.rmdir(): only an empty directory can be removed
rmdir(fs, p) ==
    IF Subtree(fs, p) = {p}
    THEN [ok |-> TRUE, fs |-> [q \in (DOMAIN fs) \ {p} |-> fs[q]]]
    ELSE [ok |-> FALSE, fs |-> fs]

\* Path.unlink()
unlink(fs, p) == [ok |-> TRUE, fs |-> [q \in (DOMAIN fs) \ {p} |-> fs[q]]]

\* Path.mkdir()
mkdir(fs, p) == [q \in (DOMAIN fs) \cup {p} |-> IF q = p THEN DIR ELSE fs[q]]

(***************************************************************************)
(* Filters (filters.py).  A result is always the expanded pair.            *)
(***************************************************************************)
\* a Result is a plain boolean or a tuple (include_self, include_children)
Bool(b) == [bool |-> b]
Pair(include_self, include_children) ==
    [tuple |-> <<include_self, include_children>>]

expand_result(r) ==
    IF "tuple" \in DOMAIN r THEN r.tuple ELSE <<r.bool, TRUE>>

FilterIsFile == [kind |-> "is_file", arg |-> ""]
FilterIsDirectory == [kind |-> "is_dir", arg |-> ""]
FilterIsEmpty == [kind |-> "is_empty", arg |-> ""]
FilterIsLikeName(pattern) == [kind |-> "is_like_name", arg |-> pattern]
FilterTrue == [kind |-> "true", arg |-> ""]
FilterIsSpecial == [kind |-> "is_special", arg |-> ""]
FilterIsHidden == [kind |-> "is_hidden", arg |-> ""]
FilterIsNotHidden == [kind |-> "is_not_hidden", arg |-> ""]
FilterNegated(inner) == [kind |-> "negated", inner |-> inner]
FilterIsExactly(paths) == [kind |-> "is_exactly", paths |-> paths]
FilterIsInPath(path) == [kind |-> "is_in_path", path |-> path]
FilterIsNotInPath(path) == [kind |-> "is_not_in_path", path |-> path]
FilterExclude(path) == [kind |-> "exclude", path |-> path]

\* s.startswith("."), for the names of the model
starts_with_dot(s) == s \in {".h"}

\* to_test.is_relative_to(to_include) and to_test != to_include
test_is_in_exact(to_include, to_test) ==
    IsPrefix(to_include, to_test) /\ to_test /= to_include

\* the hidden entry is left out and its children are still visited
FilterIsNotHidden_test_recursing(p) ==
    IF starts_with_dot(Basename(p)) THEN Pair(FALSE, TRUE) ELSE Bool(TRUE)

\* FilterIsNotHidden.test
FilterIsNotHidden_test(p) ==
    IF starts_with_dot(Basename(p)) THEN Pair(FALSE, FALSE) ELSE Bool(TRUE)

\* Filter.test(p) of each filter kind
RECURSIVE FilterTest(_, _, _)
FilterTest(f, fs, p) ==
    CASE f.kind = "true" -> Bool(TRUE)
      [] f.kind = "negated" ->
            LET r == FilterTest(f.inner, fs, p)
            IN  IF "tuple" \in DOMAIN r
                THEN Pair(~r.tuple[1], r.tuple[2])
                ELSE Bool(~r.bool)
      [] f.kind = "is_special" -> Bool(~is_file(fs, p) /\ ~is_dir(fs, p))
      [] f.kind = "is_exactly" -> Bool(\E k \in 1..Len(f.paths) : f.paths[k] = p)
      [] f.kind = "is_in_path" -> Bool(test_is_in_exact(f.path, p))
      [] f.kind = "is_not_in_path" ->
            IF test_is_in_exact(f.path, p) THEN Pair(TRUE, FALSE)
            ELSE Bool(TRUE)
      [] f.kind = "is_hidden" ->
            Bool(\E k \in 1..Len(p) : starts_with_dot(p[k]))
      [] f.kind = "is_not_hidden" -> FilterIsNotHidden_test(p)
      [] f.kind = "exclude" ->
            IF f.path = p THEN Pair(FALSE, FALSE) ELSE Bool(TRUE)
      [] f.kind = "is_file" -> Bool(is_file(fs, p))
      [] f.kind = "is_dir" -> Bool(is_dir(fs, p))
      [] f.kind = "is_empty" ->
            IF is_dir(fs, p) THEN Bool(Len(iterdir(fs, p)) = 0)
            ELSE Bool(st_size(fs, p) = 0)
      [] f.kind = "is_like_name" -> Bool(Basename(p) = f.arg)

\* Filter.negate: the generic negation, or the specialised one of the kind
negate(f) ==
    CASE f.kind = "is_in_path" -> FilterIsNotInPath(f.path)
      [] f.kind = "is_hidden" -> FilterIsNotHidden
      [] OTHER -> FilterNegated(f)

\* Path.is_absolute(): an absolute path starts at one of the absolute
\* directories of the model, a relative path at a name
is_absolute(p) == Len(p) > 0 /\ p[1] \in {"root", "backup", "elsewhere"}

\* filters._make_absolute: [raised, path]
make_absolute_path(p, root) ==
    IF is_absolute(p)
    THEN IF IsPrefix(root, p) \/ p = root
         THEN [raised |-> FALSE, path |-> p]
         ELSE [raised |-> TRUE, path |-> p]
    ELSE [raised |-> FALSE, path |-> root \o p]

\* Filter.make_absolute(root): [raised, filter], the filter a new object
make_absolute(f, root) ==
    CASE f.kind \in {"is_in_path", "is_not_in_path", "exclude"} ->
            LET a == make_absolute_path(f.path, root)
            IN  [raised |-> a.raised,
                 filter |-> [kind |-> f.kind, path |-> a.path]]
      [] f.kind = "is_exactly" ->
            LET a == [k \in 1..Len(f.paths) |->
                         make_absolute_path(f.paths[k], root)]
            IN  [raised |-> \E k \in 1..Len(a) : a[k].raised,
                 filter |-> FilterIsExactly([k \in 1..Len(a) |-> a[k].path])]
      [] OTHER -> [raised |-> FALSE, filter |-> f]

\* FilterSet.test: the conjunction of both components over all filters
FilterSetTest(filters, fs, item) ==
    LET results == [k \in 1..Len(filters) |->
                        expand_result(FilterTest(filters[k], fs, item))]
    IN  << \A k \in 1..Len(filters) : results[k][1],
           \A k \in 1..Len(filters) : results[k][2] >>

\* the filter sets the commands are given
FilterSets ==
    { <<>>,
      <<FilterIsFile>> }

(***************************************************************************)
(* LazyFileSet.iterate (fileset2.py): a generator over an explicit stack.  *)
(***************************************************************************)
DEFAULT == 1
ALWAYS_INCLUDE_CHILDREN == 2
ALWAYS_EXCLUDE_CHILDREN == 3

\* stack.pop() takes the last element
Top(stack) == stack[Len(stack)]
Pop(stack) == SubSeq(stack, 1, Len(stack) - 1)

\* LazyFileSet._resolve_unconditional: everything below p
RECURSIVE resolve_unconditional_loop(_, _)
resolve_unconditional_loop(fs, stack) ==
    IF Len(stack) = 0 THEN <<>>
    ELSE LET item == Top(stack)
             rest == Pop(stack)
             next == IF is_dir(fs, item) THEN rest \o iterdir(fs, item) ELSE rest
         IN  <<item>> \o resolve_unconditional_loop(fs, next)

\* yielding p itself before what is below it
resolve_unconditional_self_first(fs, p) ==
    <<p>> \o resolve_unconditional_loop(fs, iterdir(fs, p))

resolve_unconditional(fs, p) == resolve_unconditional_loop(fs, iterdir(fs, p))

\* the generator run up to its next yield: [item, stack], item = NoPath when
\* the generator is exhausted (the ALWAYS_EXCLUDE_CHILDREN behaviour is the
\* one a command resumes step by step while it changes the file system)
RECURSIVE iterate_next(_, _, _, _)
iterate_next(fs, filters, behavior, stack) ==
    IF Len(stack) = 0 THEN [item |-> NoPath, stack |-> stack]
    ELSE LET item == Top(stack)
             t == FilterSetTest(filters, fs, item)
             should_include == t[1]
             should_recurse ==
                 IF behavior = ALWAYS_EXCLUDE_CHILDREN /\ should_include
                 THEN FALSE ELSE t[2]
             next == IF should_recurse /\ is_dir(fs, item)
                     THEN Pop(stack) \o iterdir(fs, item)
                     ELSE Pop(stack)
         IN  IF should_include THEN [item |-> item, stack |-> next]
             ELSE iterate_next(fs, filters, behavior, next)

\* the generator run to its end on an unchanging file system
RECURSIVE iterate_loop(_, _, _, _)
iterate_loop(fs, filters, behavior, stack) ==
    IF Len(stack) = 0 THEN <<>>
    ELSE LET item == Top(stack)
             t == FilterSetTest(filters, fs, item)
             should_include == t[1]
             unconditional == behavior = ALWAYS_INCLUDE_CHILDREN
                              /\ should_include /\ is_dir(fs, item)
             should_recurse ==
                 IF behavior = ALWAYS_EXCLUDE_CHILDREN /\ should_include
                 THEN FALSE ELSE t[2]
             next == IF ~unconditional /\ should_recurse /\ is_dir(fs, item)
                     THEN Pop(stack) \o iterdir(fs, item)
                     ELSE Pop(stack)
             yielded == IF should_include THEN <<item>> ELSE <<>>
             below == IF unconditional THEN resolve_unconditional(fs, item)
                      ELSE <<>>
         IN  yielded \o below \o iterate_loop(fs, filters, behavior, next)

iterate(fs, filters, behavior) ==
    iterate_loop(fs, filters, behavior, iterdir(fs, Root))

\* FileSet.is_empty: not any(self.iterate())
fileset_is_empty(fs, filters) == Len(iterate(fs, filters, DEFAULT)) = 0

\* FileSet.calculate_size(...).is_empty(), as confirm_operation_on_fileset2 asks
size_is_empty(fs, filters) ==
    Len(iterate(fs, filters, ALWAYS_INCLUDE_CHILDREN)) = 0

(***************************************************************************)
(* FileSet.resolve (fileset.py): the generator run to its end.             *)
(***************************************************************************)
NORMAL == 1
EXCLUDE_DIR_CHILDREN == 2
INCLUDE_DIR_CHILDREN == 3

\* recursion goes on when some filter approves it
FileSet_test_any_recurse(all_filters, fs, item) ==
    LET results == [k \in 1..Len(all_filters) |->
                        expand_result(FilterTest(all_filters[k], fs, item))]
    IN  << \A k \in 1..Len(all_filters) : results[k][1],
           \E k \in 1..Len(all_filters) : results[k][2] >>

\* results, should_include and should_recurse of one item
FileSet_test(all_filters, fs, item) ==
    LET results == [k \in 1..Len(all_filters) |->
                        expand_result(FilterTest(all_filters[k], fs, item))]
    IN  << \A k \in 1..Len(all_filters) : results[k][1],
           \A k \in 1..Len(all_filters) : results[k][2] >>

RECURSIVE FileSet_resolve_unconditional_loop(_, _)
FileSet_resolve_unconditional_loop(fs, stack) ==
    IF Len(stack) = 0 THEN <<>>
    ELSE LET item == Top(stack)
             rest == Pop(stack)
             next == IF is_dir(fs, item) THEN rest \o iterdir(fs, item) ELSE rest
         IN  <<item>> \o FileSet_resolve_unconditional_loop(fs, next)

\* only the entries right below p
FileSet_resolve_unconditional_children(fs, p) ==
    iterdir(fs, p)

\* FileSet._resolve_unconditional: everything below p, no filter tested
FileSet_resolve_unconditional(fs, p) ==
    FileSet_resolve_unconditional_loop(fs, iterdir(fs, p))

\* the while loop of FileSet.resolve
RECURSIVE FileSet_resolve_loop(_, _, _, _)
FileSet_resolve_loop(fs, all_filters, recurse, stack) ==
    IF Len(stack) = 0 THEN <<>>
    ELSE LET item == Top(stack)
             t == FileSet_test(all_filters, fs, item)
             should_include == t[1]
             unconditional == recurse = INCLUDE_DIR_CHILDREN
                              /\ should_include /\ is_dir(fs, item)
             should_recurse ==
                 IF recurse = EXCLUDE_DIR_CHILDREN /\ should_include
                 THEN FALSE ELSE t[2]
             next == IF ~unconditional /\ should_recurse /\ is_dir(fs, item)
                     THEN Pop(stack) \o iterdir(fs, item)
                     ELSE Pop(stack)
             yielded == IF should_include THEN <<item>> ELSE <<>>
             below == IF unconditional
                      THEN FileSet_resolve_unconditional(fs, item)
                      ELSE <<>>
         IN  yielded \o below
                \o FileSet_resolve_loop(fs, all_filters, recurse, next)

\* the filters FileSet.resolve tests the entries with
all_filters_of(filters, special_files) ==
    (IF ~special_files THEN <<negate(FilterIsSpecial)>> ELSE <<>>) \o filters

\* FileSet.resolve(recurse=...) consumed to its end: the exception raised,
\* the paths yielded, the filters the entries were tested with.  The value
\* f.make_absolute(self.root) returns is not stored: the loop tests the
\* filters of all_filters as they were given.
FileSet_resolve(fs, filters, special_files, recurse) ==
    LET all_filters == all_filters_of(filters, special_files)
    IN  IF \E k \in 1..Len(all_filters) :
               make_absolute(all_filters[k], Root).raised
        THEN [raised |-> "PathOutsideOfRoot", yielded |-> <<>>,
              evaluated |-> <<>>]
        ELSE [raised |-> "",
              yielded |-> FileSet_resolve_loop(fs, all_filters, recurse,
                                               iterdir(fs, Root)),
              evaluated |-> all_filters]

(***************************************************************************)
(* The ledger (db.py): the two tables, rows in insertion order.            *)
(***************************************************************************)
OP_TYPE_DELETE == "delete"
OP_TYPE_RENAME == "rename"
OP_TYPE_MOVE == "move"
OP_TYPE_CREATE == "create"

INVOCATION_CONTEXT_CLI == "cli"
INVOCATION_CONTEXT_PYTHON == "python"
Contexts == {INVOCATION_CONTEXT_CLI, INVOCATION_CONTEXT_PYTHON}

VARIABLES
    fs,             \* the file system: root tree and backup directory
    invocation,     \* table invocation
    invocation_op,  \* table invocation_op
    clock,          \* the last value read from int(time.time() * 1000)
    uuids,          \* how many uuid4 values have been drawn
    pc,             \* where the running command stands; "idle" between commands
    context,        \* Database.context of the BatchOp2 running the command
    local,          \* the running command's local variables
    result,         \* what the last call returned or raised
    last,           \* history: the last command, the tree it started from
    performed       \* history: the mutations commands made, per invocation

vars == <<fs, invocation, invocation_op, clock, uuids, pc, context, local,
          result, last, performed>>

ledger == <<invocation, invocation_op>>

\* uuid.uuid4().hex: a value never drawn before
uuid4(n) == ToString(n)

\* what int(time.time() * 1000) can be read as, counted from the first read:
\* the wall clock does not run backwards here, and a read can fall into the
\* same millisecond as the read before it
TimeReads ==
    IF uuids = 0 THEN {clock} ELSE {t \in {clock, clock + 1} : t <= MaxTime}

\* Database.create_invocation: INSERT INTO invocation
create_invocation(rows, invocation_id, ctx, cmdline, undoable, time_invoked_ms) ==
    Append(rows, [invocation_id |-> invocation_id,
                  context |-> ctx,
                  cmdline |-> cmdline,
                  undoable |-> undoable,
                  time_invoked_ms |-> time_invoked_ms])

\* the INSERT is not made
create_invocation_op_unwritten(rows, invocation_id, op_type, path_before, path_after) ==
    rows

\* Database.create_invocation_op: INSERT INTO invocation_op
create_invocation_op(rows, invocation_id, op_type, path_before, path_after) ==
    Append(rows, [invocation_id |-> invocation_id,
                  op_type |-> op_type,
                  path_before |-> path_before,
                  path_after |-> path_after])

\* Database.get_last_invocation, the first query: the rows of the context
\* with the greatest time_invoked_ms; ORDER BY ... LIMIT 1 returns one of
\* them, and which one is not specified when several share that time
LastInvocations(rows, ctx) ==
    {k \in 1..Len(rows) :
        /\ rows[k].context = ctx
        /\ \A j \in 1..Len(rows) :
              rows[j].context = ctx =>
                  rows[j].time_invoked_ms <= rows[k].time_invoked_ms}

\* Database.get_last_invocation, the second query: the ops of the invocation
OpsOf(rows, invocation_id) ==
    SelectSeq(rows, LAMBDA r : r.invocation_id = invocation_id)

NoInvocation ==
    [invocation_id |-> "", context |-> "", cmdline |-> "",
     undoable |-> FALSE, time_invoked_ms |-> 0]

\* Database.get_last_invocation: what the call can return, None (found is
\* false) or an invocation with its ops
get_last_invocation(rows, op_rows, ctx) ==
    IF LastInvocations(rows, ctx) = {}
    THEN {[found |-> FALSE, invocation |-> NoInvocation, ops |-> <<>>]}
    ELSE {[found |-> TRUE, invocation |-> rows[k],
           ops |-> OpsOf(op_rows, rows[k].invocation_id)] :
                k \in LastInvocations(rows, ctx)}

\* Database.delete_invocation: DELETE FROM invocation, and the foreign key's
\* ON DELETE CASCADE on invocation_op
delete_invocation_rows(rows, invocation_id) ==
    SelectSeq(rows, LAMBDA r : r.invocation_id /= invocation_id)

\* without the cascade: the ops of a deleted invocation stay
delete_invocation_op_rows_kept(rows, invocation_id) == rows

delete_invocation_op_rows(rows, invocation_id) ==
    SelectSeq(rows, LAMBDA r : r.invocation_id /= invocation_id)

(***************************************************************************)
(* UndoManager (batchop2.py).                                              *)
(***************************************************************************)
\* UndoManager._make_new_path: backup_directory / f"{invocation_id}___{i:0>8}"
make_new_path(invocation_id, i) ==
    Append(BackupDir, invocation_id \o "___0000000" \o ToString(i))

\* _sort_undo_ops: a stable sort on the key, create ops last
sort_key(op) == IF op.op_type = OP_TYPE_CREATE THEN 2 ELSE 1

\* the ops in the order they were logged, not sorted
sort_undo_ops_unsorted(ops) == ops

sort_undo_ops(ops) ==
    SelectSeq(ops, LAMBDA op : sort_key(op) = 1)
        \o SelectSeq(ops, LAMBDA op : sort_key(op) = 2)

(***************************************************************************)
(* The state between commands, and the initial states.                     *)
(***************************************************************************)
NoLocal ==
    [filters |-> <<>>, confirm |-> "", invocation_id |-> "", i |-> 0,
     stack |-> <<>>, p |-> NoPath, new_path |-> NoPath, ops |-> <<>>, k |-> 0]

\* history: the command that ran last in a context, the tree it started
\* from, how it ended; for an undo, the command it came right after, and
\* whether that command and every undo since ran to their end
NoLast ==
    [cmd |-> "none", after |-> "none", context |-> "", tree |-> <<>>,
     status |-> "none", clean |-> TRUE]

Started(cmd, ctx, f, status) ==
    [cmd |-> cmd, after |-> "none", context |-> ctx, tree |-> Tree(f),
     status |-> status, clean |-> TRUE]

\* the trees the commands start from.  Under the root, "a" is an empty file
\* or a directory holding a file "a" with data; "b" is absent, a file with
\* data, or a directory holding an empty file "a".
InitTrees ==
    { [a |-> <<"file0">>, b |-> <<"none">>],
      [a |-> <<"file0">>, b |-> <<"file1">>],
      [a |-> <<"file0">>, b |-> <<DIR, "file0">>],
      [a |-> <<DIR, "file1">>, b |-> <<"none">>],
      [a |-> <<DIR, "file1">>, b |-> <<"file1">>],
      [a |-> <<DIR, "file1">>, b |-> <<DIR, "file0">>] }

TreeToFs(t) ==
    LET top(n) == {<<Append(Root, n), t[n][1]>>}
        child(n) == IF Len(t[n]) = 2
                    THEN {<<Root \o <<n, "a">>, t[n][2]>>} ELSE {}
        entries == top("a") \cup child("a") \cup top("b") \cup child("b")
                     \cup {<<Root, DIR>>, <<BackupDir, DIR>>}
        present == {e \in entries : e[2] /= "none"}
    IN  [q \in {e[1] : e \in present} |->
            (CHOOSE e \in present : e[1] = q)[2]]

Init ==
    /\ fs \in {TreeToFs(t) : t \in InitTrees}
    /\ invocation = <<>>
    /\ invocation_op = <<>>
    /\ clock = 0
    /\ uuids = 0
    /\ pc = "idle"
    /\ context = ""
    /\ local = NoLocal
    /\ result = "none"
    /\ last = NoLast
    /\ performed = {}

\* a call that raises or returns without having started anything
Return(value) ==
    /\ pc' = "idle"
    /\ context' = ""
    /\ local' = NoLocal
    /\ result' = value
    /\ UNCHANGED last

\* a command that stops at an exception part-way
Raise(value) ==
    /\ pc' = "idle"
    /\ context' = ""
    /\ local' = NoLocal
    /\ result' = value
    /\ last' = NoLast

(***************************************************************************)
(* BatchOp2.delete (batchop2.py).                                          *)
(***************************************************************************)
\* the answer of the prompt is not looked at
delete_check_unconfirmed(f, filters, confirm) ==
    IF fileset_is_empty(f, filters) THEN "EmptyFileSet"
    ELSE IF confirm /= "not_required" /\ size_is_empty(f, filters)
    THEN "EmptyFileSet"
    ELSE "go"

\* the checks before UndoManager.start: the empty file set, the prompt
delete_check(f, filters, confirm) ==
    IF fileset_is_empty(f, filters) THEN "EmptyFileSet"
    ELSE IF confirm /= "not_required" /\ size_is_empty(f, filters)
    THEN "EmptyFileSet"
    ELSE IF confirm = "no" THEN "None"
    ELSE "go"

\* the call up to the loop: resolve, the checks, UndoManager.start
DeleteCall(ctx, filters, confirm, dry_run) ==
    /\ pc = "idle"
    /\ LET check == delete_check(fs, filters, confirm)
       IN  IF check /= "go"
           THEN /\ Return(check)
                /\ UNCHANGED <<fs, ledger, clock, uuids, performed>>
           ELSE /\ uuids < MaxInvocations
                /\ \E t \in TimeReads :
                      /\ clock' = t
                      /\ invocation' = create_invocation(invocation,
                                uuid4(uuids + 1), ctx, "", TRUE, t)
                /\ uuids' = uuids + 1
                /\ IF dry_run
                   THEN \* the loop only collects paths_deleted
                        /\ pc' = "idle"
                        /\ context' = ""
                        /\ local' = NoLocal
                        /\ result' = "Result"
                        /\ last' = Started("dry_delete", ctx, fs, "done")
                   ELSE /\ pc' = "delete"
                        /\ context' = ctx
                        /\ local' = [NoLocal EXCEPT
                                        !.filters = filters,
                                        !.confirm = confirm,
                                        !.invocation_id = uuid4(uuids + 1),
                                        !.i = 1,
                                        !.stack = iterdir(fs, Root)]
                        /\ result' = "running"
                        /\ last' = Started("delete", ctx, fs, "running")
                /\ UNCHANGED <<fs, invocation_op, performed>>

\* children of an included entry are yielded too
exclude_children_kept(f, filters, stack) ==
    iterate_next(f, filters, DEFAULT, stack)

\* fileset.exclude_children(): the generator that does not descend into an
\* entry it yields
exclude_children(f, filters, stack) ==
    iterate_next(f, filters, ALWAYS_EXCLUDE_CHILDREN, stack)

\* one turn of the loop over fileset.exclude_children() up to the call of
\* shutil.move, when dry_run is false: the next path, undo_mgr.add_op for it
DeleteNext ==
    /\ pc = "delete"
    /\ LET g == exclude_children(fs, local.filters, local.stack)
           new_path == make_new_path(local.invocation_id, local.i)
       IN  IF g.item = NoPath
           THEN /\ pc' = "idle"
                /\ context' = ""
                /\ local' = NoLocal
                /\ result' = "Result"
                /\ last' = [last EXCEPT !.status = "done"]
                /\ UNCHANGED invocation_op
           ELSE /\ invocation_op' = create_invocation_op(invocation_op,
                        local.invocation_id, OP_TYPE_DELETE, g.item, new_path)
                /\ local' = [local EXCEPT !.stack = g.stack,
                                          !.p = g.item,
                                          !.new_path = new_path,
                                          !.i = local.i + 1]
                /\ pc' = "delete_move"
                /\ UNCHANGED <<context, result, last>>
    /\ UNCHANGED <<fs, invocation, clock, uuids, performed>>

\* shutil.move(p, new_path)
DeleteMove ==
    /\ pc = "delete_move"
    /\ LET m == shutil_move(fs, local.p, local.new_path)
       IN  IF m.ok
           THEN /\ fs' = m.fs
                /\ performed' = performed \cup
                        {[invocation_id |-> local.invocation_id,
                          path_before |-> local.p,
                          path_after |-> local.new_path]}
                /\ pc' = "delete"
                /\ UNCHANGED <<context, local, result, last>>
           ELSE /\ Raise("OSError")
                /\ UNCHANGED <<fs, performed>>
    /\ UNCHANGED <<ledger, clock, uuids>>

(***************************************************************************)
(* BatchOp2.move and BatchOp2.rename.  Their bodies are not part of the    *)
(* source tree (batchop2.py holds delete and undo only); they follow the   *)
(* specification's description of the orchestrator and the shape of        *)
(* BatchOp2.delete.                                                        *)
(***************************************************************************)
\* the planned moves, one <<path, new path>> per path of the file set
plan(paths, targets) == [k \in 1..Len(paths) |-> <<paths[k], targets[k]>>]

\* no scan of the new paths
has_collision_unchecked(f, moves) == FALSE

\* two paths would get the same new path, or a new path exists already
has_collision(f, moves) ==
    \/ \E j, k \in 1..Len(moves) : j /= k /\ moves[j][2] = moves[k][2]
    \/ \E k \in 1..Len(moves) : exists(f, moves[k][2])

\* the loop over the paths: undo_mgr.add_op, then shutil.move, for each
RECURSIVE move_loop(_, _, _, _, _)
move_loop(f, ops, invocation_id, op_type, moves) ==
    IF Len(moves) = 0 THEN [ok |-> TRUE, fs |-> f, ops |-> ops]
    ELSE LET p == Head(moves)[1]
             new_path == Head(moves)[2]
             logged == create_invocation_op(ops, invocation_id, op_type,
                                            p, new_path)
             m == shutil_move(f, p, new_path)
         IN  IF m.ok
             THEN move_loop(m.fs, logged, invocation_id, op_type, Tail(moves))
             ELSE [ok |-> FALSE, fs |-> f, ops |-> logged]

\* how a command that started an invocation ends
Finish(cmd, ctx, run) ==
    /\ fs' = run.fs
    /\ invocation_op' = run.ops
    /\ pc' = "idle"
    /\ context' = ""
    /\ local' = NoLocal
    /\ IF run.ok
       THEN /\ result' = "Result"
            /\ last' = Started(cmd, ctx, fs, "done")
       ELSE /\ result' = "OSError"
            /\ last' = NoLast

\* move(filterset, destination, require_confirm=False): the paths of the file
\* set, children of an included directory excluded, go into the destination
\* directory, which is created (and logged as a create op) when it does not
\* exist
Move(ctx, filters, destination) ==
    /\ pc = "idle"
    /\ LET dest == Append(Root, destination)
           found == iterate(fs, filters, ALWAYS_EXCLUDE_CHILDREN)
           paths == plan(found, [k \in 1..Len(found) |->
                                    Append(dest, Basename(found[k]))])
           invocation_id == uuid4(uuids + 1)
       IN  IF exists(fs, dest) /\ ~is_dir(fs, dest)
           THEN /\ Return("NotADirectory")
                /\ UNCHANGED <<fs, ledger, clock, uuids, performed>>
           ELSE IF Len(paths) = 0
           THEN /\ Return("EmptyFileSet")
                /\ UNCHANGED <<fs, ledger, clock, uuids, performed>>
           ELSE IF has_collision(fs, paths)
           THEN /\ Return("PathCollision")
                /\ UNCHANGED <<fs, ledger, clock, uuids, performed>>
           ELSE /\ uuids < MaxInvocations
                /\ \E t \in TimeReads :
                      /\ clock' = t
                      /\ invocation' = create_invocation(invocation,
                                invocation_id, ctx, "", TRUE, t)
                /\ uuids' = uuids + 1
                /\ LET created == ~exists(fs, dest)
                       ops0 == IF created
                               THEN create_invocation_op(invocation_op,
                                        invocation_id, OP_TYPE_CREATE,
                                        NoPath, dest)
                               ELSE invocation_op
                       fs0 == IF created THEN mkdir(fs, dest) ELSE fs
                   IN  Finish("move", ctx,
                              move_loop(fs0, ops0, invocation_id,
                                        OP_TYPE_MOVE, paths))
                /\ UNCHANGED performed

\* rename(old, new, require_confirm=False): every entry named old gets the
\* name new in its directory
Rename(ctx, old, new) ==
    /\ pc = "idle"
    /\ LET found == iterate(fs, <<FilterIsLikeName(old)>>,
                            ALWAYS_EXCLUDE_CHILDREN)
           paths == plan(found, [k \in 1..Len(found) |->
                                    Append(Parent(found[k]), new)])
           invocation_id == uuid4(uuids + 1)
       IN  IF Len(paths) = 0
           THEN /\ Return("EmptyFileSet")
                /\ UNCHANGED <<fs, ledger, clock, uuids, performed>>
           ELSE IF has_collision(fs, paths)
           THEN /\ Return("PathCollision")
                /\ UNCHANGED <<fs, ledger, clock, uuids, performed>>
           ELSE /\ uuids < MaxInvocations
                /\ \E t \in TimeReads :
                      /\ clock' = t
                      /\ invocation' = create_invocation(invocation,
                                invocation_id, ctx, "", TRUE, t)
                /\ uuids' = uuids + 1
                /\ Finish("rename", ctx,
                          move_loop(fs, invocation_op, invocation_id,
                                    OP_TYPE_RENAME, paths))
                /\ UNCHANGED performed

(***************************************************************************)
(* BatchOp2.undo (batchop2.py).                                            *)
(***************************************************************************)
\* without the refusal of an invocation that has no ops
undo_check_any_ops(found, inv, invocation_ops) ==
    IF ~found THEN "NoPreviousCommand"
    ELSE IF ~inv.undoable THEN "NotUndoable"
    ELSE "go"

\* the three refusals of undo, on what get_last_invocation returned
undo_check(found, inv, invocation_ops) ==
    IF ~found THEN "NoPreviousCommand"
    ELSE IF ~inv.undoable THEN "NotUndoable"
    ELSE IF Len(invocation_ops) = 0 THEN "NothingToUndo"
    ELSE "go"

\* the call up to the loop: the last invocation, the refusals, the prompt,
\* _sort_undo_ops
UndoCall(ctx, confirm) ==
    /\ pc = "idle"
    /\ \E got \in get_last_invocation(invocation, invocation_op, ctx) :
          LET check == undo_check(got.found, got.invocation, got.ops)
              follows == /\ last.context = ctx
                         /\ \/ last.cmd /= "undo" /\ last.status = "done"
                            \/ last.status = "interrupted"
          IN  IF check /= "go" THEN Return(check)
              ELSE IF confirm = "no" THEN Return("None")
              ELSE /\ pc' = "undo"
                   /\ context' = ctx
                   /\ local' = [NoLocal EXCEPT
                          !.invocation_id = got.invocation.invocation_id,
                          !.ops = sort_undo_ops(got.ops),
                          !.k = 1]
                   /\ result' = "running"
                   /\ last' = IF follows
                              THEN [last EXCEPT
                                      !.cmd = "undo",
                                      !.after = IF last.cmd = "undo"
                                                THEN last.after ELSE last.cmd,
                                      !.status = "running"]
                              ELSE [NoLast EXCEPT !.cmd = "undo",
                                                  !.context = ctx,
                                                  !.status = "running"]
    /\ UNCHANGED <<fs, ledger, clock, uuids, performed>>

\* _undo_delete and _undo_rename_or_move: the same body
undo_move_back(f, op) ==
    IF exists(f, op.path_after)
    THEN shutil_move(f, op.path_after, op.path_before)
    ELSE [ok |-> TRUE, fs |-> f]

\* _undo_create
undo_create(f, op) ==
    IF exists(f, op.path_after)
    THEN IF is_dir(f, op.path_after)
         THEN rmdir(f, op.path_after)
         ELSE unlink(f, op.path_after)
    ELSE [ok |-> TRUE, fs |-> f]

\* the dispatch on op.op_type in the loop of undo
undo_op(f, op) ==
    IF op.op_type = OP_TYPE_DELETE THEN undo_move_back(f, op)
    ELSE IF op.op_type = OP_TYPE_RENAME \/ op.op_type = OP_TYPE_MOVE
    THEN undo_move_back(f, op)
    ELSE IF op.op_type = OP_TYPE_CREATE THEN undo_create(f, op)
    ELSE [ok |-> FALSE, fs |-> f]

\* one turn of the loop over invocation_ops
UndoStep ==
    /\ pc = "undo"
    /\ local.k <= Len(local.ops)
    /\ LET r == undo_op(fs, local.ops[local.k])
       IN  IF r.ok
           THEN /\ fs' = r.fs
                /\ local' = [local EXCEPT !.k = local.k + 1]
                /\ UNCHANGED <<pc, context, result, last>>
           ELSE /\ Raise("OSError")
                /\ UNCHANGED fs
    /\ UNCHANGED <<ledger, clock, uuids, performed>>

\* after the loop: self.db.delete_invocation, return UndoResult
UndoFinish ==
    /\ pc = "undo"
    /\ local.k > Len(local.ops)
    /\ invocation' = delete_invocation_rows(invocation, local.invocation_id)
    /\ invocation_op' =
            delete_invocation_op_rows(invocation_op, local.invocation_id)
    /\ performed' = {m \in performed : m.invocation_id /= local.invocation_id}
    /\ pc' = "idle"
    /\ context' = ""
    /\ local' = NoLocal
    /\ result' = "Result"
    /\ last' = [last EXCEPT !.status = "done"]
    /\ UNCHANGED <<fs, clock, uuids>>

(***************************************************************************)
(* What happens around the commands.                                       *)
(***************************************************************************)
\* the process is interrupted (KeyboardInterrupt, kill) inside a loop
Interrupt ==
    /\ pc /= "idle"
    /\ pc' = "idle"
    /\ context' = ""
    /\ local' = NoLocal
    /\ result' = "interrupted"
    /\ last' = [last EXCEPT !.status = "interrupted", !.clean = FALSE]
    /\ UNCHANGED <<fs, ledger, clock, uuids, performed>>

\* Database.create_invocation(cmdline, undoable=False): a command recorded
\* as one that cannot be undone
RecordNotUndoable(ctx) ==
    /\ pc = "idle"
    /\ uuids < MaxInvocations
    /\ \E t \in TimeReads :
          /\ clock' = t
          /\ invocation' = create_invocation(invocation, uuid4(uuids + 1),
                                             ctx, "", FALSE, t)
    /\ uuids' = uuids + 1
    /\ Raise("recorded")
    /\ UNCHANGED <<fs, invocation_op, performed>>

\* what the move commands are given
MoveFilterSets == { <<FilterIsFile>>, <<FilterIsLikeName("a")>> }
Destinations == {"d"}

\* require_confirm is false, or it is true and the prompt is answered
Confirms == {"not_required", "yes", "no"}

\* the commands of BatchOp2 objects constructed with the given contexts
\* over one root and one bookkeeping directory
NextIn(contexts) ==
    \/ \E ctx \in contexts, filters \in FilterSets, confirm \in Confirms,
          dry_run \in BOOLEAN :
            DeleteCall(ctx, filters, confirm, dry_run)
    \/ DeleteNext
    \/ DeleteMove
    \/ \E ctx \in contexts, filters \in MoveFilterSets,
          destination \in Destinations :
            Move(ctx, filters, destination)
    \/ \E ctx \in contexts : Rename(ctx, "a", "d")
    \/ \E ctx \in contexts, confirm \in Confirms : UndoCall(ctx, confirm)
    \/ UndoStep
    \/ UndoFinish
    \/ Interrupt
    \/ \E ctx \in contexts : RecordNotUndoable(ctx)

\* one object, constructed with the default context, on any of the trees
Next == NextIn({INVOCATION_CONTEXT_PYTHON})

Spec == Init /\ [][Next]_vars

\* a command-line object and a library object on one tree
ContextsTree == [a |-> <<"file0">>, b |-> <<DIR, "file0">>]

InitContexts == Init /\ fs = TreeToFs(ContextsTree)

NextContexts == NextIn(Contexts)

SpecContexts == InitContexts /\ [][NextContexts]_vars

\* one object on that tree whose commands all run to their end: confirmed
\* deletes, moves and renames, and undos
NextWhole ==
    \/ \E filters \in FilterSets :
          DeleteCall(INVOCATION_CONTEXT_PYTHON, filters, "not_required", FALSE)
    \/ DeleteNext
    \/ DeleteMove
    \/ \E filters \in MoveFilterSets, destination \in Destinations :
          Move(INVOCATION_CONTEXT_PYTHON, filters, destination)
    \/ Rename(INVOCATION_CONTEXT_PYTHON, "a", "d")
    \/ UndoCall(INVOCATION_CONTEXT_PYTHON, "not_required")
    \/ UndoStep
    \/ UndoFinish

SpecWhole == InitContexts /\ [][NextWhole]_vars

\* a library object that deletes and undoes, and a command-line object that
\* renames, on one tree: a name freed by a delete can be taken again before
\* the delete is undone
NextRetaken ==
    \/ \E filters \in FilterSets \cup MoveFilterSets :
          DeleteCall(INVOCATION_CONTEXT_PYTHON, filters, "not_required", FALSE)
    \/ DeleteNext
    \/ DeleteMove
    \/ Rename(INVOCATION_CONTEXT_CLI, "b", "a")
    \/ \E ctx \in Contexts : UndoCall(ctx, "not_required")
    \/ UndoStep
    \/ UndoFinish

SpecRetaken == Init /\ [][NextRetaken]_vars

(***************************************************************************)
(* Word patterns (patterns.py).  A WordMatch is [matched, captured,        *)
(* consumed, negated]; matched FALSE stands for None.                      *)
(***************************************************************************)
\* str.lower(), on the words of the model
lower(s) ==
    CASE s = "LIST" -> "list"
      [] s = "Move" -> "move"
      [] s = "TO" -> "to"
      [] s = "Are" -> "are"
      [] s = "NOT" -> "not"
      [] OTHER -> s

Lit(literal) == [type |-> "Lit", literal |-> literal]
AnyLit(literals) == [type |-> "AnyLit", literals |-> literals]
Opt(pattern) == [type |-> "Opt", pattern |-> pattern]
Not == [type |-> "Not"]
String == [type |-> "String"]
SizeUnit == [type |-> "SizeUnit"]

NoMatch == [matched |-> FALSE, captured |-> <<>>, consumed |-> FALSE,
            negated |-> FALSE]

\* WordMatch(captured, consumed=True, negated=False); captured None is <<>>
WordMatch(captured, consumed, negated) ==
    [matched |-> TRUE, captured |-> captured, consumed |-> consumed,
     negated |-> negated]

\* the characters of the words of the model that start with a digit or name
\* a unit; the other words start with neither
chars(token) ==
    CASE token = "" -> <<>>
      [] token = "10kb" -> <<"1", "0", "k", "b">>
      [] token = "10KB" -> <<"1", "0", "K", "B">>
      [] token = "10Kb" -> <<"1", "0", "K", "b">>
      [] token = "10.7gb" -> <<"1", "0", ".", "7", "g", "b">>
      [] token = "2.1mb" -> <<"2", ".", "1", "m", "b">>
      [] token = "0.5kb" -> <<"0", ".", "5", "k", "b">>
      [] token = "1.5b" -> <<"1", ".", "5", "b">>
      [] token = "3bytes" -> <<"3", "b", "y", "t", "e", "s">>
      [] token = "2GB" -> <<"2", "G", "B">>
      [] token = "10tb" -> <<"1", "0", "t", "b">>
      [] token = "10 kb" -> <<"1", "0", " ", "k", "b">>
      [] token = "10.kb" -> <<"1", "0", ".", "k", "b">>
      [] token = "10" -> <<"1", "0">>
      [] token = "kb" -> <<"k", "b">>
      [] OTHER -> <<"w">>

DecimalDigits == {"0", "1", "2", "3", "4", "5", "6", "7", "8", "9"}

\* str.lower() character by character, on the letters of the units
lower_chars(cs) ==
    [k \in 1..Len(cs) |->
        CASE cs[k] = "B" -> "b" [] cs[k] = "K" -> "k" [] cs[k] = "M" -> "m"
          [] cs[k] = "G" -> "g" [] cs[k] = "T" -> "t" [] OTHER -> cs[k]]

\* how many characters [0-9]+ takes from the k-th character on
digits_from(cs, k) ==
    CHOOSE n \in 0..Len(cs) :
        /\ k + n - 1 <= Len(cs)
        /\ \A j \in k..(k + n - 1) : cs[j] \in DecimalDigits
        /\ k + n > Len(cs) \/ cs[k + n] \notin DecimalDigits

\* the units _size_unit_pattern lists
pattern_units ==
    { <<"b">>, <<"b", "y", "t", "e">>, <<"b", "y", "t", "e", "s">>,
      <<"k", "b">>, <<"k", "i", "l", "o", "b", "y", "t", "e">>,
      <<"k", "i", "l", "o", "b", "y", "t", "e", "s">>,
      <<"m", "b">>, <<"m", "e", "g", "a", "b", "y", "t", "e">>,
      <<"m", "e", "g", "a", "b", "y", "t", "e", "s">>,
      <<"g", "b">>, <<"g", "i", "g", "a", "b", "y", "t", "e">>,
      <<"g", "i", "g", "a", "b", "y", "t", "e", "s">> }

\* group 1 and group 2 of the pattern when [0-9]+ takes a characters and the
\* fraction b digits (b = 0: no fraction)
size_unit_groups(cs, a, b) ==
    [matched |-> a >= 1
                 /\ SubSeq(cs, a + (IF b = 0 THEN 1 ELSE b + 2), Len(cs))
                        \in pattern_units,
     whole |-> SubSeq(cs, 1, a),
     fraction |-> SubSeq(cs, a + 2, a + 1 + b),
     unit |-> SubSeq(cs, a + (IF b = 0 THEN 1 ELSE b + 2), Len(cs))]

\* the number of fraction digits of the token whose [0-9]+ takes a characters
fraction_digits(cs, a) ==
    IF a + 1 <= Len(cs) /\ cs[a + 1] = "." THEN digits_from(cs, a + 2) ELSE 0

\* _size_unit_pattern.match(token)
size_unit_pattern_match(cs) ==
    size_unit_groups(cs, digits_from(cs, 1),
                     fraction_digits(cs, digits_from(cs, 1)))

\* common.unit_to_multiple: the decimal digits of the multiple, <<>> for None
unit_to_multiple(unit) ==
    CASE lower_chars(unit) \in {<<"b">>, <<"b", "y", "t", "e">>,
                                <<"b", "y", "t", "e", "s">>} -> <<"1">>
      [] lower_chars(unit) \in
            {<<"k", "b">>, <<"k", "i", "l", "o", "b", "y", "t", "e">>,
             <<"k", "i", "l", "o", "b", "y", "t", "e", "s">>} ->
            <<"1", "0", "0", "0">>
      [] lower_chars(unit) \in
            {<<"m", "b">>, <<"m", "e", "g", "a", "b", "y", "t", "e">>,
             <<"m", "e", "g", "a", "b", "y", "t", "e", "s">>} ->
            <<"1", "0", "0", "0", "0", "0", "0">>
      [] lower_chars(unit) \in
            {<<"g", "b">>, <<"g", "i", "g", "a", "b", "y", "t", "e">>,
             <<"g", "i", "g", "a", "b", "y", "t", "e", "s">>} ->
            <<"1", "0", "0", "0", "0", "0", "0", "0", "0", "0">>
      [] lower_chars(unit) \in
            {<<"t", "b">>, <<"t", "e", "r", "a", "b", "y", "t", "e">>,
             <<"t", "e", "r", "a", "b", "y", "t", "e", "s">>} ->
            <<"1", "0", "0", "0", "0", "0", "0", "0", "0", "0", "0", "0",
              "0">>
      [] OTHER -> <<>>

\* an int written in decimal has no leading zero
without_leading_zeros(ds) ==
    SubSeq(ds, 1 + (CHOOSE z \in 0..(Len(ds) - 1) :
                       /\ \A j \in 1..z : ds[j] = "0"
                       /\ z = Len(ds) - 1 \/ ds[z + 1] /= "0"),
           Len(ds))

\* int(decimal.Decimal(n) * multiple), in decimal digits: every multiple is
\* a one followed by zeros, so the product moves the point of n to the right
\* and int() drops the digits still behind it
int_of_product(whole, fraction, multiple) ==
    without_leading_zeros(
        whole \o [k \in 1..(Len(multiple) - 1) |->
                    IF k <= Len(fraction) THEN fraction[k] ELSE "0"])

\* SizeUnit.test after the match, g the groups of the match
SizeUnit_captured(g) ==
    IF ~g.matched \/ unit_to_multiple(g.unit) = <<>> THEN NoMatch
    ELSE WordMatch(<<int_of_product(g.whole, g.fraction,
                                    unit_to_multiple(g.unit))>>, TRUE, FALSE)

\* SizeUnit.test: token_lower is computed and the pattern is matched against
\* token
SizeUnit_test(token) == SizeUnit_captured(size_unit_pattern_match(chars(token)))

\* String matches the empty string too
word_test_string_matches_empty(pattern, token) ==
    CASE pattern.type = "Lit" ->
            IF lower(token) = lower(pattern.literal)
            THEN WordMatch(<<>>, TRUE, FALSE) ELSE NoMatch
      [] pattern.type = "AnyLit" ->
            IF \E k \in 1..Len(pattern.literals) :
                   lower(token) = lower(pattern.literals[k])
            THEN WordMatch(<<>>, TRUE, FALSE) ELSE NoMatch
      [] pattern.type = "Not" ->
            IF lower(token) = "not" THEN WordMatch(<<>>, TRUE, TRUE)
            ELSE WordMatch(<<>>, FALSE, FALSE)
      [] pattern.type = "String" ->
            WordMatch(<<token>>, TRUE, FALSE)
      [] pattern.type = "SizeUnit" -> SizeUnit_test(token)

\* BasePattern.test of the patterns that hold no pattern
word_test(pattern, token) ==
    CASE pattern.type = "Lit" ->
            IF lower(token) = lower(pattern.literal)
            THEN WordMatch(<<>>, TRUE, FALSE) ELSE NoMatch
      [] pattern.type = "AnyLit" ->
            IF \E k \in 1..Len(pattern.literals) :
                   lower(token) = lower(pattern.literals[k])
            THEN WordMatch(<<>>, TRUE, FALSE) ELSE NoMatch
      [] pattern.type = "Not" ->
            IF lower(token) = "not" THEN WordMatch(<<>>, TRUE, TRUE)
            ELSE WordMatch(<<>>, FALSE, FALSE)
      [] pattern.type = "String" ->
            IF token /= "" THEN WordMatch(<<token>>, TRUE, FALSE) ELSE NoMatch
      [] pattern.type = "SizeUnit" -> SizeUnit_test(token)

\* BasePattern.test, Opt.test included
pattern_test(pattern, token) ==
    IF pattern.type = "Opt"
    THEN LET m == word_test(pattern.pattern, token)
         IN  IF m.matched THEN m ELSE WordMatch(<<>>, FALSE, FALSE)
    ELSE word_test(pattern, token)

Description(patterns, filter_constructor, pass_cwd) ==
    [patterns |-> patterns, filter_constructor |-> filter_constructor,
     pass_cwd |-> pass_cwd]

PATTERNS ==
    << Description(<<Opt(Lit("that")), AnyLit(<<"is", "are">>), Not,
                     Opt(Lit("a")), Lit("file")>>, "FilterIsFile", FALSE),
       Description(<<Opt(Lit("that")), AnyLit(<<"is", "are">>), Not,
                     Opt(Lit("a")),
                     AnyLit(<<"folder", "directory", "dir">>)>>,
                   "FilterIsDirectory", FALSE),
       Description(<<Opt(Lit("that")), Opt(AnyLit(<<"is", "are">>)), Not,
                     Lit("like"), String>>, "glob_pattern_to_filter", FALSE),
       Description(<<Opt(Lit("that")), Lit("matches"), String>>,
                   "FilterMatches", FALSE),
       Description(<<Opt(Lit("that")), AnyLit(<<"is", "are">>), Not,
                     Lit("empty")>>, "FilterIsEmpty", FALSE),
       Description(<<AnyLit(<<">", "gt">>), SizeUnit>>,
                   "FilterSizeGreater", FALSE),
       Description(<<AnyLit(<<">=", "gte", "ge">>), SizeUnit>>,
                   "FilterSizeGreaterEqual", FALSE),
       Description(<<AnyLit(<<"<", "lt">>), SizeUnit>>,
                   "FilterSizeLess", FALSE),
       Description(<<AnyLit(<<"<=", "lte", "le">>), SizeUnit>>,
                   "FilterSizeLessEqual", FALSE),
       Description(<<Opt(Lit("that")), Opt(AnyLit(<<"is", "are">>)), Not,
                     Lit("in"), String>>, "FilterIsInPath", TRUE),
       Description(<<Opt(Lit("that")), Opt(AnyLit(<<"is", "are">>)), Not,
                     Lit("hidden")>>, "FilterIsHidden", FALSE),
       Description(<<Opt(Lit("that")), AnyLit(<<"has", "have">>),
                     AnyLit(<<"ext", "extension">>), String>>,
                   "FilterHasExtension", FALSE),
       Description(<<Lit("with"), AnyLit(<<"ext", "extension">>), String>>,
                   "FilterHasExtension", FALSE) >>

(***************************************************************************)
(* The command parser (parsing.py).  A call returns [raised, ...]: raised  *)
(* is the name of the exception, "" when the call returns.                 *)
(***************************************************************************)
\* try_phrase_match from the k-th pattern on: [matched, captures, negated,
\* tokens_consumed], raised "Impossible" on a second negation
RECURSIVE try_phrase_match_loop(_, _, _, _, _, _)
\* every pattern that matches moves the cursor
try_phrase_match_body_always_consumes(patterns, k, tokens, i, captures, negated, m) ==
    IF ~m.matched
    THEN [raised |-> "", matched |-> FALSE, captures |-> <<>>,
          negated |-> FALSE, tokens_consumed |-> 0]
    ELSE IF m.negated /\ negated
    THEN [raised |-> "Impossible", matched |-> FALSE, captures |-> <<>>,
          negated |-> FALSE, tokens_consumed |-> 0]
    ELSE try_phrase_match_loop(patterns, k + 1, tokens, i + 1,
             captures \o m.captured, negated \/ m.negated)

\* the body of the for loop, m the WordMatch of the k-th pattern
try_phrase_match_body(patterns, k, tokens, i, captures, negated, m) ==
    IF ~m.matched
    THEN [raised |-> "", matched |-> FALSE, captures |-> <<>>,
          negated |-> FALSE, tokens_consumed |-> 0]
    ELSE IF m.negated /\ negated
    THEN [raised |-> "Impossible", matched |-> FALSE, captures |-> <<>>,
          negated |-> FALSE, tokens_consumed |-> 0]
    ELSE try_phrase_match_loop(patterns, k + 1, tokens,
             IF m.consumed THEN i + 1 ELSE i,
             captures \o m.captured, negated \/ m.negated)

try_phrase_match_loop(patterns, k, tokens, i, captures, negated) ==
    IF k > Len(patterns)
    THEN [raised |-> "", matched |-> TRUE, captures |-> captures,
          negated |-> negated, tokens_consumed |-> i]
    ELSE try_phrase_match_body(patterns, k, tokens, i, captures, negated,
             pattern_test(patterns[k],
                          IF i >= Len(tokens) THEN "" ELSE tokens[i + 1]))

try_phrase_match(patterns, tokens) ==
    try_phrase_match_loop(patterns, 1, tokens, 0, <<>>, FALSE)

\* the filters the parser constructs and no traversal of the model tests
FilterIsLikePath(pattern) == [kind |-> "is_like_path", arg |-> pattern]
FilterMatches(pattern) == [kind |-> "matches", arg |-> pattern]
FilterSize(kind, byte_count) == [kind |-> kind, byte_count |-> byte_count]
\* FilterHasExtension.__init__ puts the dot in front
FilterHasExtension(ext) ==
    [kind |-> "has_extension", arg |-> IF ext = "md" THEN ".md" ELSE ext]

\* "/" in s, and the other tests of characters, on the words of the model
has_slash(s) == s \in {"/x/", "books/austen"}
has_glob_chars(s) == s \in {"*.md"}
is_regex(s) == s \in {"/x/"}
\* s[1:-1]
unwrapped(s) == IF s = "/x/" THEN "x" ELSE s
\* Path(s)
path_of(s) == IF s = "books/austen" THEN <<"books", "austen">> ELSE <<s>>

glob_pattern_to_filter(s) ==
    IF has_slash(s) THEN FilterIsLikePath(s) ELSE FilterIsLikeName(s)

\* filters.pattern_to_filter(s, cwd=cwd): a regex between slashes, a glob,
\* or else an exact path resolved against cwd
pattern_to_filter(s, cwd) ==
    IF is_regex(s) THEN FilterMatches(unwrapped(s))
    ELSE IF has_glob_chars(s) THEN glob_pattern_to_filter(s)
    ELSE FilterIsExactly(<<cwd \o path_of(s)>>)

\* description.filter_constructor(*m.captures, cwd=cwd): the ancestry path
\* resolved against cwd
construct_with_cwd(filter_constructor, captures, cwd) ==
    FilterIsInPath(cwd \o path_of(captures[1]))

\* description.filter_constructor(*m.captures)
construct(filter_constructor, captures) ==
    CASE filter_constructor = "FilterIsFile" -> FilterIsFile
      [] filter_constructor = "FilterIsDirectory" -> FilterIsDirectory
      [] filter_constructor = "FilterIsEmpty" -> FilterIsEmpty
      [] filter_constructor = "FilterIsHidden" -> FilterIsHidden
      [] filter_constructor = "glob_pattern_to_filter" ->
            glob_pattern_to_filter(captures[1])
      [] filter_constructor = "FilterMatches" -> FilterMatches(captures[1])
      [] filter_constructor = "FilterHasExtension" ->
            FilterHasExtension(captures[1])
      [] OTHER -> FilterSize(filter_constructor, captures[1])

\* try_phrase_match of every description of PATTERNS on the tokens
phrase_matches(tokens) ==
    [d \in 1..Len(PATTERNS) |->
        try_phrase_match(PATTERNS[d].patterns, tokens)]

\* the description at which the for loop over PATTERNS stops: the first that
\* matches or raises, 0 when the loop runs to its else
first_match(tried) ==
    LET hits == {d \in 1..Len(tried) :
                    tried[d].matched \/ tried[d].raised /= ""}
    IN  IF hits = {} THEN 0
        ELSE CHOOSE x \in hits : \A y \in hits : x <= y

\* the phrase's negation is dropped
matched_filter_never_negated(description, m, cwd) ==
    IF description.pass_cwd
    THEN construct_with_cwd(description.filter_constructor, m.captures, cwd)
    ELSE construct(description.filter_constructor, m.captures)

\* the filter of a matched description, negated when the phrase is
matched_filter(description, m, cwd) ==
    LET f == IF description.pass_cwd
             THEN construct_with_cwd(description.filter_constructor,
                                     m.captures, cwd)
             ELSE construct(description.filter_constructor, m.captures)
    IN  IF m.negated THEN negate(f) ELSE f

\* the while loop of parse_preds from token i on: [raised, filters]
RECURSIVE parse_preds_loop(_, _, _, _, _)
\* the body of the while loop after its for loop, which stopped at the d-th
\* description, or ran to its else when d = 0
parse_preds_body(tokens, i, filters, cwd, trailing_ok, tried, d) ==
    IF d = 0
    THEN IF trailing_ok THEN [raised |-> "", filters |-> filters]
         ELSE [raised |-> "SyntaxNoMatchingPattern", filters |-> <<>>,
               token |-> tokens[i + 1]]
    ELSE IF tried[d].raised /= ""
    THEN [raised |-> tried[d].raised, filters |-> <<>>]
    ELSE parse_preds_loop(tokens, i + tried[d].tokens_consumed,
             Append(filters, matched_filter(PATTERNS[d], tried[d], cwd)),
             cwd, trailing_ok)

\* the for loop over PATTERNS, tried what try_phrase_match returns for each
parse_preds_for(tokens, i, filters, cwd, trailing_ok, tried) ==
    parse_preds_body(tokens, i, filters, cwd, trailing_ok, tried,
                     first_match(tried))

parse_preds_loop(tokens, i, filters, cwd, trailing_ok) ==
    IF i >= Len(tokens) THEN [raised |-> "", filters |-> filters]
    ELSE parse_preds_for(tokens, i, filters, cwd, trailing_ok,
             phrase_matches(SubSeq(tokens, i + 1, Len(tokens))))

parse_preds(tokens, cwd, trailing_ok) ==
    parse_preds_loop(tokens, 0, <<>>, cwd, trailing_ok)

\* adj_to_filter(token) is not None
is_adjective(token) == token \in {"all", "any", "empty", "hidden"}

\* hidden is taken for empty
adj_to_filter_hidden_as_empty(token) ==
    CASE token \in {"all", "any"} -> FilterTrue
      [] token = "empty" -> FilterIsEmpty
      [] token = "hidden" -> FilterIsEmpty

adj_to_filter(token) ==
    CASE token \in {"all", "any"} -> FilterTrue
      [] token = "empty" -> FilterIsEmpty
      [] token = "hidden" -> FilterIsHidden

\* parse_np: [raised, filters, tokens], tokens the list as the call leaves it
parse_np(tokens, cwd) ==
    IF Len(tokens) = 0
    THEN [raised |-> "SyntaxEmptyInput", filters |-> <<>>, tokens |-> tokens]
    ELSE LET i == CHOOSE n \in 0..Len(tokens) :
                      /\ \A k \in 1..n : is_adjective(tokens[k])
                      /\ n = Len(tokens) \/ ~is_adjective(tokens[n + 1])
             r == [k \in 1..i |-> adj_to_filter(tokens[k])]
             tkn == tokens[i + 1]
             noun == CASE tkn \in {"anything", "everything"} -> <<>>
                       [] tkn = "files" -> <<FilterIsFile>>
                       [] tkn \in {"folders", "directories", "dirs"} ->
                             <<FilterIsDirectory>>
                       [] OTHER -> <<pattern_to_filter(tkn, cwd)>>
         IN  IF i = Len(tokens)
             THEN [raised |-> "", filters |-> <<>>, tokens |-> tokens]
             ELSE [raised |-> "", filters |-> r \o noun,
                   tokens |-> SubSeq(tokens, i + 2, Len(tokens))]

\* filters = parse_np(tokens) + parse_preds(tokens) put together, preds what
\* parse_preds returned
np_plus_preds(np, preds) ==
    IF preds.raised /= ""
    THEN [raised |-> preds.raised, filters |-> <<>>, tokens |-> np.tokens]
    ELSE [raised |-> "", filters |-> np.filters \o preds.filters,
          tokens |-> np.tokens]

\* parse_preds called on the tokens parse_np left, np what parse_np returned
np_then_preds(np, cwd, trailing_ok) ==
    IF np.raised /= "" THEN np
    ELSE np_plus_preds(np, parse_preds(np.tokens, cwd, trailing_ok))

\* empty_ok is not looked at
parse_np_and_preds_never_empty(tokens, cwd, empty_ok, trailing_ok) ==
    np_then_preds(parse_np(tokens, cwd), cwd, trailing_ok)

\* parse_np_and_preds: [raised, filters, tokens]; parse_np deletes the
\* tokens it consumed from the list, parse_preds deletes none
parse_np_and_preds(tokens, cwd, empty_ok, trailing_ok) ==
    IF empty_ok /\ Len(tokens) = 0
    THEN [raised |-> "", filters |-> <<>>, tokens |-> tokens]
    ELSE np_then_preds(parse_np(tokens, cwd), cwd, trailing_ok)

UnaryCommand(command, filters) ==
    [type |-> "UnaryCommand", command |-> command, filters |-> filters]
SpecialCommand(command) == [type |-> "SpecialCommand", command |-> command]
RenameCommand(old, new) == [type |-> "RenameCommand", old |-> old, new |-> new]
MoveCommand(filters, destination) ==
    [type |-> "MoveCommand", filters |-> filters, destination |-> destination]

\* what a call that raises returns
NoCommand == [type |-> "none"]

Returned(value) == [raised |-> "", value |-> value]
Raised(exception) == [raised |-> exception, value |-> NoCommand]

\* parse_rename_command; tokens[1] and tokens[2] of the code are tokens[2]
\* and tokens[3] here, and an index past the end raises IndexError
parse_rename_command(tokens) ==
    IF Len(tokens) /= 3 /\ Len(tokens) < 2 THEN Raised("IndexError")
    ELSE IF Len(tokens) /= 3 /\ lower(tokens[2]) /= "to"
    THEN Raised("Syntax")
    ELSE IF Len(tokens) < 3 THEN Raised("IndexError")
    ELSE Returned(RenameCommand(tokens[1], tokens[3]))

\* parse_move_command after its first line, r what parse_np_and_preds
\* returned and r.tokens the list it left
move_destination(r) ==
    IF r.raised /= "" THEN Raised(r.raised)
    ELSE IF Len(r.tokens) = 0 THEN Raised("SyntaxEndOfInput")
    ELSE IF r.tokens[1] /= "to" THEN Raised("SyntaxExpectedToken")
    ELSE IF Len(r.tokens) > 2
    THEN IF Len(r.tokens) < 4 THEN Raised("IndexError")
         ELSE Raised("SyntaxExtraInput")
    ELSE IF Len(r.tokens) < 2 THEN Raised("IndexError")
    ELSE Returned(MoveCommand(r.filters, r.tokens[2]))

\* parse_move_command
parse_move_command(tokens, cwd) ==
    move_destination(parse_np_and_preds(tokens, cwd, FALSE, TRUE))

\* UnaryCommand(command, filters), filters what parse_np_and_preds returned
unary_command(command, r) ==
    IF r.raised /= "" THEN Raised(r.raised)
    ELSE Returned(UnaryCommand(command, r.filters))

\* parse_command(words, cwd=cwd), words a list of tokens
parse_command(words, cwd) ==
    IF Len(words) = 0 THEN Raised("SyntaxEmptyInput")
    ELSE LET command == lower(Head(words))
             tokens == Tail(words)
         IN  CASE command \in {"count", "list"} ->
                    unary_command(command,
                        parse_np_and_preds(tokens, cwd, TRUE, FALSE))
               [] command = "delete" ->
                    unary_command(command,
                        parse_np_and_preds(tokens, cwd, FALSE, FALSE))
               [] command = "undo" -> Returned(SpecialCommand(command))
               [] command = "rename" -> parse_rename_command(tokens)
               [] command = "move" -> parse_move_command(tokens, cwd)
               [] OTHER -> Raised("SyntaxUnknownCommand")

(***************************************************************************)
(* Resolving file sets and testing filters, on trees of three levels with  *)
(* hidden directories and a special file.                                  *)
(***************************************************************************)
\* what is at root/a, root/a/b, root/a/b/d, root/a/.h, root/a/.h/b, root/.h,
\* root/.h/a, root/.h/a/b and root/d
ResolveShapes ==
    {t \in [a : {DIR, "file1"}, ab : {"none", "file0", DIR},
            abd : {"none", "file1"}, ah : {"none", DIR},
            ahb : {"none", "file1"}, h : {"none", DIR},
            ha : {"none", "file1", DIR}, hab : {"none", "file0"},
            d : {"none", "special"}] :
        /\ t.a /= DIR => t.ab = "none" /\ t.ah = "none"
        /\ t.ab /= DIR => t.abd = "none"
        /\ t.ah /= DIR => t.ahb = "none"
        /\ t.h /= DIR => t.ha = "none"
        /\ t.ha /= DIR => t.hab = "none"}

ShapeToFs(t) ==
    LET entries == {<<Root, DIR>>, <<BackupDir, DIR>>,
                    <<Root \o <<"a">>, t.a>>,
                    <<Root \o <<"a", "b">>, t.ab>>,
                    <<Root \o <<"a", "b", "d">>, t.abd>>,
                    <<Root \o <<"a", ".h">>, t.ah>>,
                    <<Root \o <<"a", ".h", "b">>, t.ahb>>,
                    <<Root \o <<".h">>, t.h>>,
                    <<Root \o <<".h", "a">>, t.ha>>,
                    <<Root \o <<".h", "a", "b">>, t.hab>>,
                    <<Root \o <<"d">>, t.d>>}
        present == {e \in entries : e[2] /= "none"}
    IN  [q \in {e[1] : e \in present} |->
            (CHOOSE e \in present : e[1] = q)[2]]

\* the paths the path-valued filters are given: under the root, relative,
\* outside the root
FilterPaths ==
    { Root \o <<"a">>, <<"a">>, <<"elsewhere", "a">> }

\* the filter lists FileSet objects are constructed with
ResolveFilterSets ==
    { <<>>,
      <<FilterIsFile>>,
      <<FilterIsDirectory>>,
      <<FilterIsNotHidden>>,
      <<FilterIsNotHidden, FilterIsDirectory>>,
      <<FilterIsFile, FilterIsNotHidden>>,
      <<negate(FilterIsFile)>>,
      <<FilterIsExactly(<< <<"a">> >>)>>,
      <<FilterExclude(<<"a", "b">>)>> }
    \cup { <<FilterIsInPath(x)>> : x \in FilterPaths }
    \cup { <<FilterIsNotInPath(x)>> : x \in FilterPaths }

\* the filters tested on single paths
TestedFilters ==
    { FilterTrue, FilterIsFile, FilterIsDirectory, FilterIsSpecial,
      FilterIsHidden, FilterIsNotHidden, FilterIsInPath(Root \o <<"a">>),
      FilterIsNotInPath(Root \o <<"a">>), FilterExclude(Root \o <<"a">>),
      FilterNegated(FilterIsNotHidden) }

InitResolve ==
    /\ fs \in {ShapeToFs(t) : t \in ResolveShapes}
    /\ invocation = <<>>
    /\ invocation_op = <<>>
    /\ clock = 0
    /\ uuids = 0
    /\ pc = "idle"
    /\ context = ""
    /\ local = NoLocal
    /\ result = "none"
    /\ last = NoLast
    /\ performed = {}

\* list(FileSet(root, filters, special_files=...).resolve(recurse=...)), one
\* call on a tree
Resolve(filters, special_files, recurse) ==
    /\ pc = "idle"
    /\ local' = [fn |-> "resolve", filters |-> filters,
                 special_files |-> special_files, recurse |-> recurse]
    /\ result' = FileSet_resolve(fs, filters, special_files, recurse)
    /\ pc' = "returned"
    /\ UNCHANGED <<fs, ledger, clock, uuids, context, last, performed>>

\* f.test(p) and f.negate().test(p)
TestFilter(f, p) ==
    /\ pc = "idle"
    /\ local' = [fn |-> "test", filter |-> f, p |-> p]
    /\ result' = [test |-> FilterTest(f, fs, p),
                  negated |-> FilterTest(negate(f), fs, p)]
    /\ pc' = "returned"
    /\ UNCHANGED <<fs, ledger, clock, uuids, context, last, performed>>

NextResolve ==
    \/ \E filters \in ResolveFilterSets, special_files \in BOOLEAN,
          recurse \in {NORMAL, EXCLUDE_DIR_CHILDREN, INCLUDE_DIR_CHILDREN} :
            Resolve(filters, special_files, recurse)
    \/ \E f \in TestedFilters, p \in DOMAIN Tree(fs) : TestFilter(f, p)

SpecResolve == InitResolve /\ [][NextResolve]_vars

(***************************************************************************)
(* Parsing command lines: a verb, a noun phrase, predicate phrases and a   *)
(* tail of words.                                                          *)
(***************************************************************************)
\* the longest tail of words after the phrases
MaxTail == 3

Verbs == {"list", "LIST", "count", "delete", "undo", "rename", "move",
          "Move", "copy"}
NounPhrases == { <<>>, <<"files">>, <<"*.md">>, <<"empty", "files">>,
                 <<"all">> }
PredicatePhrases == { <<>>, <<"are", "empty">>,
                      <<"that", "is", "not", "a", "file">>,
                      <<"in", "books/austen">> }
TailWords == {"to", "TO", "dest", "x"}
Tails == UNION {[1..n -> TailWords] : n \in 0..MaxTail}

\* parse_command(tokens, cwd=root)
Parse(tokens) ==
    /\ pc = "idle"
    /\ local' = [fn |-> "parse", tokens |-> tokens]
    /\ result' = parse_command(tokens, Root)
    /\ pc' = "returned"
    /\ UNCHANGED <<fs, ledger, clock, uuids, context, last, performed>>

\* the token lists parsed: nothing at all, or a verb and what follows it
NextParse ==
    \/ Parse(<<>>)
    \/ /\ pc = "idle"
       /\ \E v \in Verbs, np \in NounPhrases, pp \in PredicatePhrases,
             tail \in Tails :
               Parse(<<v>> \o np \o pp \o tail)

InitParse == Init /\ fs = TreeToFs(ContextsTree)

SpecParse == InitParse /\ [][NextParse]_vars

(***************************************************************************)
(* The parser's parts called on their own: SizeUnit.test, try_phrase_match, *)
(* parse_preds one turn of its while loop at a time, parse_np, tokenize.   *)
(***************************************************************************)
SizeTokens ==
    {"10kb", "10KB", "10Kb", "10.7gb", "2.1mb", "0.5kb", "1.5b", "3bytes",
     "2GB", "10tb", "10 kb", "10.kb", "10", "kb", "", "files"}

(***************************************************************************)
(* tokenize (parsing.py), on command strings given character by character; *)
(* a token is the sequence of its characters.  Indices count from 0 as in  *)
(* the code: s[i] of the code is s[i + 1] here.                            *)
(***************************************************************************)
\* c.isspace()
isspace(c) == c = " "

\* consume_word: up to the next whitespace or quote
consume_word_end(s, i) ==
    CHOOSE j \in i..Len(s) :
        /\ \A k \in i..(j - 1) : ~isspace(s[k + 1]) /\ s[k + 1] \notin {"'", "\""}
        /\ j = Len(s) \/ isspace(s[j + 1]) \/ s[j + 1] \in {"'", "\""}

consume_word(s, i) ==
    [word |-> SubSeq(s, i + 1, consume_word_end(s, i)),
     i |-> consume_word_end(s, i)]

consume_whitespace(s, i) ==
    CHOOSE j \in i..Len(s) :
        /\ \A k \in i..(j - 1) : isspace(s[k + 1])
        /\ j = Len(s) \/ ~isspace(s[j + 1])

\* the closing quote is any quote
consume_quote_end_any_quote(s, i, delimiter) ==
    CHOOSE j \in i..Len(s) :
        /\ \A k \in i..(j - 1) : s[k + 1] \notin {"'", "\""}
        /\ j = Len(s) \/ s[j + 1] \in {"'", "\""}

\* consume_quote: up to the next delimiter, or to the end
consume_quote_end(s, i, delimiter) ==
    CHOOSE j \in i..Len(s) :
        /\ \A k \in i..(j - 1) : s[k + 1] /= delimiter
        /\ j = Len(s) \/ s[j + 1] = delimiter

consume_quote(s, i, delimiter) ==
    [word |-> SubSeq(s, i + 1, consume_quote_end(s, i, delimiter)),
     i |-> consume_quote_end(s, i, delimiter) + 1]

\* the while loop of tokenize from i on, r the tokens so far
RECURSIVE tokenize_loop(_, _, _)
\* r.append(word), and on from where the word ended
tokenize_append(cmdstr, r, consumed) ==
    tokenize_loop(cmdstr, consumed.i, Append(r, consumed.word))

tokenize_loop(cmdstr, i, r) ==
    IF i >= Len(cmdstr) THEN r
    ELSE IF isspace(cmdstr[i + 1])
    THEN tokenize_loop(cmdstr, consume_whitespace(cmdstr, i), r)
    ELSE IF cmdstr[i + 1] \in {"'", "\""}
    THEN tokenize_append(cmdstr, r,
                         consume_quote(cmdstr, i + 1, cmdstr[i + 1]))
    ELSE tokenize_append(cmdstr, r, consume_word(cmdstr, i))

tokenize(cmdstr) == tokenize_loop(cmdstr, 0, <<>>)

\* the longest token list matched against a phrase or parsed
MaxTokens == 3

PhraseWords == {"that", "is", "not", "NOT", "empty", "hidden", ">", "10kb",
                "x"}
TokenLists == UNION {[1..n -> PhraseWords] : n \in 0..MaxTokens}

\* the pattern lists matched: those of PATTERNS and those of the tests
PatternLists ==
    {PATTERNS[d].patterns : d \in 1..Len(PATTERNS)}
        \cup { <<Opt(Lit("is")), Not, SizeUnit>>, <<Lit("is"), String>>,
               <<Opt(Lit("that"))>>, <<Not, Opt(Lit("is")), Not>> }

\* try_phrase_match(patterns, tokens)
TryPhraseMatch(patterns, tokens) ==
    /\ pc = "idle"
    /\ local' = [fn |-> "try_phrase_match", patterns |-> patterns,
                 tokens |-> tokens]
    /\ result' = try_phrase_match(patterns, tokens)
    /\ pc' = "returned"
    /\ UNCHANGED <<fs, ledger, clock, uuids, context, last, performed>>

\* parse_preds(tokens, cwd=root, trailing_ok=trailing_ok) called: filters
\* = [], i = 0
ParsePredsCall(tokens, trailing_ok) ==
    /\ pc = "idle"
    /\ local' = [fn |-> "parse_preds", tokens |-> tokens,
                 trailing_ok |-> trailing_ok, i |-> 0, filters |-> <<>>]
    /\ pc' = "parse_preds"
    /\ UNCHANGED <<fs, ledger, clock, uuids, context, result, last,
                   performed>>

\* the test of the while loop and one turn of it: the return when i has
\* reached the end, else the for loop over PATTERNS and what follows it
ParsePredsTurn ==
    /\ pc = "parse_preds"
    /\ LET tokens == local.tokens
           i == local.i
           tried == phrase_matches(SubSeq(tokens, i + 1, Len(tokens)))
           d == first_match(tried)
       IN  IF i >= Len(tokens)
           THEN /\ result' = [raised |-> "", filters |-> local.filters]
                /\ pc' = "returned"
                /\ local' = local
           ELSE IF d = 0
           THEN /\ result' = IF local.trailing_ok
                              THEN [raised |-> "", filters |-> local.filters]
                              ELSE [raised |-> "SyntaxNoMatchingPattern",
                                    filters |-> <<>>, token |-> tokens[i + 1]]
                /\ pc' = "returned"
                /\ local' = local
           ELSE IF tried[d].raised /= ""
           THEN /\ result' = [raised |-> tried[d].raised, filters |-> <<>>]
                /\ pc' = "returned"
                /\ local' = local
           ELSE /\ local' = [local EXCEPT
                                 !.i = i + tried[d].tokens_consumed,
                                 !.filters =
                                     Append(@, matched_filter(PATTERNS[d],
                                                   tried[d], Root))]
                /\ pc' = "parse_preds"
                /\ result' = result
    /\ UNCHANGED <<fs, ledger, clock, uuids, context, last, performed>>

PredWords == {"is", "not", "empty", "hidden", "matches", "x", ">", "10kb"}
PredLists == UNION {[1..n -> PredWords] : n \in 0..MaxTokens}

NextPreds ==
    \/ /\ pc = "idle"
       /\ \E tokens \in PredLists, trailing_ok \in BOOLEAN :
              ParsePredsCall(tokens, trailing_ok)
    \/ ParsePredsTurn

SpecPreds == InitParse /\ [][NextPreds]_vars

NpWords == {"all", "empty", "hidden", "files", "dirs", "anything", "*.md",
            "x"}
NpLists == UNION {[1..n -> NpWords] : n \in 0..MaxTokens}

\* parse_np(tokens, cwd=root)
ParseNp(tokens) ==
    /\ pc = "idle"
    /\ local' = [fn |-> "parse_np", tokens |-> tokens]
    /\ result' = parse_np(tokens, Root)
    /\ pc' = "returned"
    /\ UNCHANGED <<fs, ledger, clock, uuids, context, last, performed>>

\* the longest command string tokenized
MaxChars == 5

Characters == {"a", "B", " ", "'", "\""}
CommandStrings == UNION {[1..n -> Characters] : n \in 0..MaxChars}

\* tokenize(cmdstr)
Tokenize(cmdstr) ==
    /\ pc = "idle"
    /\ local' = [fn |-> "tokenize", cmdstr |-> cmdstr]
    /\ result' = tokenize(cmdstr)
    /\ pc' = "returned"
    /\ UNCHANGED <<fs, ledger, clock, uuids, context, last, performed>>

\* SizeUnit().test(token)
SizeUnitTest(token) ==
    /\ pc = "idle"
    /\ local' = [fn |-> "SizeUnit", token |-> token]
    /\ result' = SizeUnit_test(token)
    /\ pc' = "returned"
    /\ UNCHANGED <<fs, ledger, clock, uuids, context, last, performed>>

NextWords ==
    \/ /\ pc = "idle"
       /\ \E token \in SizeTokens : SizeUnitTest(token)
    \/ /\ pc = "idle"
       /\ \E patterns \in PatternLists, tokens \in TokenLists :
              TryPhraseMatch(patterns, tokens)
    \/ /\ pc = "idle"
       /\ \E tokens \in NpLists : ParseNp(tokens)
    \/ /\ pc = "idle"
       /\ \E cmdstr \in CommandStrings : Tokenize(cmdstr)

SpecWords == InitParse /\ [][NextWords]_vars

(***************************************************************************)
(* The undo round trip.                                                    *)
(***************************************************************************)
\* an undo that ran to its end, called right after a completed command of
\* the given kinds in the same context
UndoneRightAfter(cmds) ==
    /\ pc = "idle"
    /\ last.cmd = "undo"
    /\ last.after \in cmds
    /\ last.status = "done"
    /\ last.clean

\* C1: one confirmed, non-dry-run delete followed immediately by one undo in
\* the same context leaves the tree under the root identical to the tree
\* before the delete: same paths, same kinds, same contents.
C1_DeleteUndoRoundTrip ==
    UndoneRightAfter({"delete"}) => Tree(fs) = last.tree

\* C2: one move or one rename followed immediately by one undo in the same
\* context leaves the tree under the root identical to the tree before the
\* command; a destination directory that the move created is gone.
C2_MoveRenameUndoRoundTrip ==
    UndoneRightAfter({"move", "rename"}) => Tree(fs) = last.tree

(***************************************************************************)
(* The order of undo, and the ledger against the filesystem.               *)
(***************************************************************************)
IsCreate(op) == op.op_type = OP_TYPE_CREATE

\* C3: during undo every delete, rename and move op is reversed before any
\* create op; when the loop reaches a create op, nothing that the invocation
\* moved is left at its path_after.
C3_CreateOpsUndoneLast ==
    pc = "undo" =>
        /\ \A j, i \in 1..Len(local.ops) :
              j < i /\ IsCreate(local.ops[j]) => IsCreate(local.ops[i])
        /\ \A i \in 1..Len(local.ops) :
              /\ local.k <= Len(local.ops)
              /\ IsCreate(local.ops[local.k])
              /\ ~IsCreate(local.ops[i])
              => ~exists(fs, local.ops[i].path_after)

\* an undo has moved a path back out of a directory its invocation created,
\* and has then removed the directory
C3_Witness ==
    /\ pc = "undo"
    /\ local.k > Len(local.ops)
    /\ \E j, i \in 1..Len(local.ops) :
          /\ IsCreate(local.ops[i])
          /\ local.ops[j].op_type = OP_TYPE_MOVE
          /\ Parent(local.ops[j].path_after) = local.ops[i].path_after
          /\ exists(fs, local.ops[j].path_before)
          /\ ~exists(fs, local.ops[i].path_after)

Logged(m) ==
    \E k \in 1..Len(invocation_op) :
        /\ invocation_op[k].invocation_id = m.invocation_id
        /\ invocation_op[k].path_before = m.path_before
        /\ invocation_op[k].path_after = m.path_after

\* C4: at every point of a delete, an interrupted one included, every move
\* made on the filesystem is one the ledger already holds as an op: the ops
\* of the invocation are a superset of the mutations performed.
C4_OpsLoggedBeforeMutation == \A m \in performed : Logged(m)

\* a delete was interrupted between the log of an op and its move, after an
\* earlier op of the same invocation was logged and moved
C4_Witness ==
    /\ pc = "idle"
    /\ result = "interrupted"
    /\ last.cmd = "delete"
    /\ \E m \in performed : \E k \in 1..Len(invocation_op) :
          /\ invocation_op[k].invocation_id = m.invocation_id
          /\ exists(fs, invocation_op[k].path_before)
          /\ ~exists(fs, invocation_op[k].path_after)
          /\ ~exists(fs, m.path_before)

(***************************************************************************)
(* Undo after runs that stopped part-way, and the refusals of undo.        *)
(***************************************************************************)
\* C5: undo skips an op whose path_after no longer exists and still
\* completes; so an undo that ran to its end after a delete interrupted at
\* an op boundary, or after an earlier undo that stopped part-way, leaves
\* every path of the tree the delete started from restored.
C5_InterruptedRunsRestored ==
    /\ pc = "idle"
    /\ last.cmd = "undo"
    /\ last.after = "delete"
    /\ last.status = "done"
    /\ ~last.clean
    => \A q \in DOMAIN last.tree : exists(fs, q) /\ fs[q] = last.tree[q]

UndoErrors == {"NoPreviousCommand", "NotUndoable", "NothingToUndo"}

IdsOf(rows) == {rows[k].invocation_id : k \in 1..Len(rows)}

C7_UndoneInvocationGone ==
    [][/\ (pc = "undo" /\ pc' = "idle" /\ result' = "Result") =>
            LET id == local.invocation_id
                Rows(rows) == {rows[k] : k \in 1..Len(rows)}
            IN  /\ Rows(invocation') =
                     {r \in Rows(invocation) : r.invocation_id /= id}
                /\ Rows(invocation_op') =
                     {r \in Rows(invocation_op) : r.invocation_id /= id}
                /\ Len(invocation') = Len(invocation) - 1
                /\ IdsOf(invocation_op') \subseteq IdsOf(invocation')
       /\ pc' = "undo" => local'.invocation_id \in IdsOf(invocation')]_vars

\* an undo has succeeded and has left another invocation with its ops
C7_Witness ==
    /\ pc = "idle"
    /\ result = "Result"
    /\ last.cmd = "undo"
    /\ Len(invocation) = 1
    /\ Len(invocation_op) > 0
    /\ uuids = 2

(***************************************************************************)
(* The invocation that undo gets from the ledger.                          *)
(***************************************************************************)
\* C8: the invocation undo works on is of the caller's context, is the one
\* created last among the invocations of that context, and comes with
\* exactly its own ops; another context's invocation is never taken.
C8_LastInvocationOfContext ==
    pc = "undo" =>
        \E n \in 1..Len(invocation) :
            /\ invocation[n].invocation_id = local.invocation_id
            /\ invocation[n].context = context
            /\ \A j \in 1..Len(invocation) :
                  invocation[j].context = context => j <= n
            /\ {local.ops[k] : k \in 1..Len(local.ops)} =
                 {r \in {invocation_op[k] : k \in 1..Len(invocation_op)} :
                     r.invocation_id = local.invocation_id}

(***************************************************************************)
(* Commands that are refused before they start.                            *)
(***************************************************************************)
\* C9: a move that raises PathCollision has changed neither the tree nor
\* the ledger, and no invocation ever holds two move ops with the same
\* path_after: a move whose sources would land on one destination name is
\* stopped before any mutation.
C9_CollisionLeavesTreeUnchanged ==
    [][/\ (pc = "idle" /\ result' = "PathCollision")
            => UNCHANGED <<fs, invocation, invocation_op>>
       /\ \A j, k \in 1..Len(invocation_op') :
             /\ j /= k
             /\ invocation_op'[j].op_type = OP_TYPE_MOVE
             /\ invocation_op'[k].op_type = OP_TYPE_MOVE
             /\ invocation_op'[j].invocation_id = invocation_op'[k].invocation_id
             => invocation_op'[j].path_after /= invocation_op'[k].path_after]_vars

\* a move was refused on the first tree it was tried on, where two files in
\* different directories have the same name
C9_Witness ==
    /\ pc = "idle"
    /\ result = "PathCollision"
    /\ uuids = 0
    /\ \E p, q \in DOMAIN fs :
          /\ p /= q
          /\ is_file(fs, p) /\ is_file(fs, q)
          /\ IsPrefix(Root, p) /\ IsPrefix(Root, q)
          /\ Basename(p) = Basename(q)
    /\ ~exists(fs, Append(Root, "d"))

\* C10: a delete that raises EmptyFileSet or returns None because the user
\* declined has added no invocation and no op and has moved no path; a
\* delete that starts its invocation had a non-empty file set and was not
\* declined.
C10_DeleteStartsAfterChecks ==
    [][/\ (pc = "idle" /\ result' \in {"EmptyFileSet", "None"})
            => UNCHANGED <<fs, invocation, invocation_op>>
       /\ (pc = "idle" /\ pc' = "delete")
            => /\ ~fileset_is_empty(fs, local'.filters)
               /\ local'.confirm /= "no"
               /\ Len(invocation') = Len(invocation) + 1
               /\ UNCHANGED <<fs, invocation_op>>]_vars

\* the user has declined a delete of a non-empty file set, on a ledger
\* without any invocation
C10_Witness ==
    /\ pc = "idle"
    /\ result = "None"
    /\ invocation = <<>>
    /\ invocation_op = <<>>
    /\ uuids = 0
    /\ fs \in {TreeToFs(t) : t \in InitTrees}

(***************************************************************************)
(* Delete acts once per matched subtree.                                   *)
(***************************************************************************)
\* the entries of a tree that the filters include
IncludedIn(t, filters) ==
    {p \in DOMAIN t : FilterSetTest(filters, t, p)[1]}

\* the included entries without an included ancestor
SubtreeRoots(t, filters) ==
    {p \in IncludedIn(t, filters) :
        \A q \in IncludedIn(t, filters) : q = p \/ ~IsPrefix(q, p)}

\* a step of a running delete keeps to the subtree roots
DeleteStep ==
    pc \in {"delete", "delete_move"} =>
          LET t == last.tree
              roots == SubtreeRoots(t, local.filters)
              id == local.invocation_id
              logged == {invocation_op'[k].path_before :
                            k \in {j \in 1..Len(invocation_op') :
                                      invocation_op'[j].invocation_id = id}}
              moved == {m.path_before :
                            m \in {x \in performed' : x.invocation_id = id}}
          IN  /\ logged \subseteq roots
              /\ moved \subseteq logged
              /\ \A x \in logged, y \in logged : x = y \/ ~IsPrefix(x, y)
              /\ \A x \in DOMAIN t :
                    (\A q \in IncludedIn(t, local.filters) : ~IsPrefix(q, x))
                       => x \in DOMAIN fs' /\ fs'[x] = t[x]
              /\ (pc' = "idle" /\ result' = "Result") =>
                    /\ logged = roots
                    /\ moved = roots
                    /\ \A x \in roots : x \notin DOMAIN fs'

\* C11: the paths a delete logs and moves to the backup directory are
\* exactly the included entries that have no included ancestor, no moved path
\* lies below another moved path, and every path that is neither included nor
\* below an included entry is left as it was.
C11_DeleteOncePerSubtree == [][DeleteStep]_vars

\* a delete ran to its end having moved a directory as one entry, and
\* having left an entry that the filters do not include where it was
C11_Witness ==
    /\ pc = "idle"
    /\ result = "Result"
    /\ last.cmd = "delete"
    /\ last.status = "done"
    /\ \E k \in 1..Len(invocation_op) :
          LET x == invocation_op[k].path_before
          IN  /\ invocation_op[k].op_type = OP_TYPE_DELETE
              /\ x \in DOMAIN last.tree
              /\ last.tree[x] = DIR
              /\ \E y \in DOMAIN last.tree : y /= x /\ IsPrefix(x, y)
              /\ x \notin DOMAIN fs

(***************************************************************************)
(* The traversal of FileSet.resolve.                                       *)
(***************************************************************************)
SeqRange(seq) == {seq[k] : k \in 1..Len(seq)}

\* a resolve call that returned: its policy, the filters it tested with
Resolved(policies) ==
    /\ pc = "returned"
    /\ local.fn = "resolve"
    /\ local.recurse \in policies
    /\ result.raised = ""

\* every filter approves the entry, every filter approves descending
AllInclude(filters, f, p) ==
    \A k \in 1..Len(filters) : expand_result(FilterTest(filters[k], f, p))[1]
AllRecurse(filters, f, p) ==
    \A k \in 1..Len(filters) : expand_result(FilterTest(filters[k], f, p))[2]

\* the directories strictly between the root and p
ProperAncestors(p) == {SubSeq(p, 1, n) : n \in (Len(Root) + 1)..(Len(p) - 1)}

\* the entries a traversal reaches when it descends exactly where every
\* filter approves
Reached(filters, f) ==
    {p \in DOMAIN Tree(f) :
        \A q \in ProperAncestors(p) : AllRecurse(filters, f, q)}

\* C12: the traversal combines the filters as a conjunction on both
\* components: an entry it visits is yielded iff every filter includes it,
\* and it descends into a directory only if every filter approves recursion,
\* so that one veto prevents descent; an empty filter list yields everything.
C12_FiltersAreConjoined ==
    Resolved({NORMAL}) =>
        LET filters == result.evaluated
        IN  /\ SeqRange(result.yielded) =
                  {p \in Reached(filters, fs) : AllInclude(filters, fs, p)}
            /\ Len(result.yielded) = Cardinality(SeqRange(result.yielded))
            /\ filters = <<>> => SeqRange(result.yielded) = DOMAIN Tree(fs)
            /\ \A p \in DOMAIN Tree(fs) :
                  FilterSetTest(filters, fs, p) =
                     <<AllInclude(filters, fs, p), AllRecurse(filters, fs, p)>>

\* a directory where one filter vetoes recursion and another approves it,
\* holding an entry that every filter includes and that is not yielded
C12_Witness ==
    /\ Resolved({NORMAL})
    /\ \E q \in Reached(result.evaluated, fs) :
          /\ is_dir(fs, q)
          /\ \E j, k \in 1..Len(result.evaluated) :
                /\ ~expand_result(FilterTest(result.evaluated[j], fs, q))[2]
                /\ expand_result(FilterTest(result.evaluated[k], fs, q))[2]
          /\ \E p \in DOMAIN Tree(fs) :
                /\ Parent(p) = q
                /\ AllInclude(result.evaluated, fs, p)
                /\ p \notin SeqRange(result.yielded)

\* the hidden directories of a tree that hold an entry
HiddenDirectories(f) ==
    {h \in DOMAIN Tree(f) :
        /\ is_dir(f, h)
        /\ starts_with_dot(Basename(h))
        /\ \E p \in DOMAIN Tree(f) : test_is_in_exact(h, p)}

\* the yielded entries inside a hidden directory
YieldedInside(h) ==
    {p \in SeqRange(result.yielded) : test_is_in_exact(h, p)}

HasNotHidden(filters) ==
    \E k \in 1..Len(filters) : filters[k] = FilterIsNotHidden

\* C13 as stated: whatever the recursion policy, resolving a filter list
\* that contains is-not-hidden yields no entry inside a hidden directory.
C13_HiddenNeverEntered ==
    (Resolved({NORMAL, EXCLUDE_DIR_CHILDREN, INCLUDE_DIR_CHILDREN})
       /\ HasNotHidden(local.filters))
    => \A h \in HiddenDirectories(fs) : YieldedInside(h) = {}

\* C13, amended: resolving a filter list that contains is-not-hidden yields
\* no entry inside a hidden directory under the NORMAL and
\* EXCLUDE_DIR_CHILDREN policies; under INCLUDE_DIR_CHILDREN it yields none
\* either unless the hidden directory lies below a directory that is itself
\* yielded, whose descendants are all swept in without testing the filters.
C13_HiddenEnteredOnlyBySweep ==
    (Resolved({NORMAL, EXCLUDE_DIR_CHILDREN, INCLUDE_DIR_CHILDREN})
       /\ HasNotHidden(local.filters))
    => \A h \in HiddenDirectories(fs) :
          \/ YieldedInside(h) = {}
          \/ /\ local.recurse = INCLUDE_DIR_CHILDREN
             /\ \E q \in ProperAncestors(h) : q \in SeqRange(result.yielded)

\* a hidden directory right under the root holding a file, resolved with
\* is-not-hidden under the sweeping policy: entries are yielded, none of them
\* from inside it
C13_Witness ==
    /\ Resolved({INCLUDE_DIR_CHILDREN})
    /\ HasNotHidden(local.filters)
    /\ Root \o <<".h">> \in HiddenDirectories(fs)
    /\ is_file(fs, Root \o <<".h", "a">>)
    /\ Len(result.yielded) > 1
    /\ YieldedInside(Root \o <<".h">>) = {}

\* the entries strictly below the directories of a set of entries
DescendantsOf(f, entries) ==
    {p \in DOMAIN Tree(f) :
        \E d \in entries : is_dir(f, d) /\ test_is_in_exact(d, p)}

\* C14: the include-children policy yields what the plain resolve yields
\* plus every descendant of each yielded directory, whether or not the
\* filters accept the descendant; when the plain resolve yields no directory
\* the two results are the same.  The same holds of LazyFileSet.iterate.
C14_RecursiveSweepsDescendants ==
    Resolved({INCLUDE_DIR_CHILDREN}) =>
        LET plain == FileSet_resolve(fs, local.filters, local.special_files,
                                     NORMAL).yielded
            lazy_plain == iterate(fs, local.filters, DEFAULT)
            lazy == iterate(fs, local.filters, ALWAYS_INCLUDE_CHILDREN)
        IN  /\ SeqRange(result.yielded) =
                  SeqRange(plain) \cup DescendantsOf(fs, SeqRange(plain))
            /\ (\A p \in SeqRange(plain) : ~is_dir(fs, p))
                  => result.yielded = plain
            /\ SeqRange(lazy) =
                  SeqRange(lazy_plain)
                     \cup DescendantsOf(fs, SeqRange(lazy_plain))
            /\ (\A p \in SeqRange(lazy_plain) : ~is_dir(fs, p))
                  => lazy = lazy_plain

\* a directory is yielded, and with it an entry two levels below that the
\* filters reject
C14_Witness ==
    /\ Resolved({INCLUDE_DIR_CHILDREN})
    /\ \E d, p \in SeqRange(result.yielded) :
          /\ is_dir(fs, d)
          /\ test_is_in_exact(d, p)
          /\ Len(p) = Len(d) + 2
          /\ ~AllInclude(result.evaluated, fs, p)
          /\ AllInclude(result.evaluated, fs, d)

(***************************************************************************)
(* Negation of filters.                                                    *)
(***************************************************************************)
\* f.test(p) and f.negate().test(p) were evaluated
Tested ==
    /\ pc = "returned"
    /\ local.fn = "test"

IsTuple(r) == "tuple" \in DOMAIN r

\* C15: for every filter F and path p, when F.test(p) is a plain boolean
\* F.negate().test(p) is its negation, and when F.test(p) is an (include,
\* recurse) pair F.negate().test(p) is the pair with the include component
\* flipped and the recurse component unchanged.
C15_NegationFlipsInclusion ==
    Tested =>
        IF IsTuple(result.test)
        THEN /\ IsTuple(result.negated)
             /\ result.negated.tuple =
                   <<~result.test.tuple[1], result.test.tuple[2]>>
        ELSE /\ ~IsTuple(result.negated)
             /\ result.negated.bool = ~result.test.bool

\* the same for the filters whose negation is the generic FilterNegated
GenericNegationFlipsInclusion ==
    (Tested /\ negate(local.filter) = FilterNegated(local.filter))
       => C15_NegationFlipsInclusion

(***************************************************************************)
(* Path-valued filters in FileSet.resolve.                                 *)
(***************************************************************************)
\* the is-not-in-path filters of a list that hold a path under the root
NotInPaths(filters) ==
    {filters[k].path :
        k \in {j \in 1..Len(filters) :
                  /\ filters[j].kind = "is_not_in_path"
                  /\ is_absolute(filters[j].path)}}

\* C16: resolving a filter list that contains is-not-in-path X yields no
\* entry strictly inside X, neither a child nor a deeper descendant; X and
\* the entries outside X are yielded exactly as without this filter.
C16_NotInPathYieldsNothingInside ==
    Resolved({NORMAL}) =>
        \A x \in NotInPaths(local.filters) :
            LET others == SelectSeq(local.filters,
                             LAMBDA f : f.kind /= "is_not_in_path")
                without == FileSet_resolve(fs, others, local.special_files,
                                           NORMAL).yielded
            IN  /\ \A p \in SeqRange(result.yielded) : ~test_is_in_exact(x, p)
                /\ \A p \in DOMAIN Tree(fs) :
                      ~test_is_in_exact(x, p) =>
                          (p \in SeqRange(result.yielded)
                             <=> p \in SeqRange(without))

\* C17: resolve evaluates the path-valued filters normalised to the root: a
\* relative path P is evaluated as root/P, so that the call yields what the
\* call with the normalised filters yields; an absolute path outside the
\* root raises PathOutsideOfRoot and nothing is yielded.
C17_PathFiltersNormalised ==
    (pc = "returned" /\ local.fn = "resolve") =>
        LET given == all_filters_of(local.filters, local.special_files)
            normalised == [k \in 1..Len(given) |->
                              make_absolute(given[k], Root)]
            absolute == [k \in 1..Len(local.filters) |->
                            make_absolute(local.filters[k], Root).filter]
        IN  IF \E k \in 1..Len(given) : normalised[k].raised
            THEN /\ result.raised = "PathOutsideOfRoot"
                 /\ result.yielded = <<>>
            ELSE /\ result.raised = ""
                 /\ result.evaluated =
                       [k \in 1..Len(given) |-> normalised[k].filter]
                 /\ result.yielded =
                       FileSet_resolve(fs, absolute, local.special_files,
                                       local.recurse).yielded

(***************************************************************************)
(* The command parser.                                                     *)
(***************************************************************************)
\* exceptions.Syntax and its subclasses
SyntaxErrors ==
    {"Syntax", "SyntaxEndOfInput", "SyntaxExtraInput", "SyntaxExpectedToken",
     "SyntaxNoMatchingPattern", "SyntaxEmptyInput", "SyntaxUnknownCommand"}

\* parse_command was called on a command line with the given verb
Parsed(verbs) ==
    /\ pc = "returned"
    /\ local.fn = "parse"
    /\ Len(local.tokens) > 0
    /\ lower(local.tokens[1]) \in verbs

\* the noun phrases with a noun
FullNounPhrases == {np \in NounPhrases : np /= <<>> /\ np /= <<"all">>}

\* C18: `move <noun phrase, predicate phrases> to <destination>` parses to
\* MoveCommand with the filters the phrases stand for and the destination; a
\* missing or different word where "to" is expected raises a syntax error,
\* and any word after the destination raises SyntaxExtraInput.
C18_MoveCommandParsed ==
    Parsed({"move"}) =>
        \A np \in FullNounPhrases, pp \in PredicatePhrases, tail \in Tails :
            Tail(local.tokens) = np \o pp \o tail =>
                LET phrases == parse_np_and_preds(np \o pp, Root, FALSE, FALSE)
                IN  /\ (Len(tail) = 2 /\ tail[1] = "to") =>
                          result = Returned(MoveCommand(phrases.filters,
                                                        tail[2]))
                    /\ (Len(tail) = 0 \/ tail[1] /= "to") =>
                          result.raised \in SyntaxErrors
                    /\ (Len(tail) > 2 /\ tail[1] = "to") =>
                          result.raised = "SyntaxExtraInput"

\* C19: `rename` parses to RenameCommand(old, new) only when exactly three
\* words follow the verb and the middle one is "to"; every other sequence of
\* words after the verb raises a syntax error and nothing else.
C19_RenameCommandParsed ==
    Parsed({"rename"}) =>
        LET rest == Tail(local.tokens)
        IN  /\ result.raised = "" =>
                  /\ Len(rest) = 3
                  /\ lower(rest[2]) = "to"
                  /\ result.value = RenameCommand(rest[1], rest[3])
            /\ (Len(rest) = 3 /\ rest[2] = "to") => result.raised = ""
            /\ result.raised /= "" => result.raised \in SyntaxErrors

\* C20: no token raises SyntaxEmptyInput; the first token in lower case is
\* the verb; a verb outside list, count, delete, rename, move, undo raises
\* SyntaxUnknownCommand; list and count with nothing after them give an empty
\* filter list; delete with nothing after it raises a syntax error.
C20_VerbDispatch ==
    (pc = "returned" /\ local.fn = "parse") =>
        LET known == {"list", "count", "delete", "rename", "move", "undo"}
        IN  /\ Len(local.tokens) = 0 => result = Raised("SyntaxEmptyInput")
            /\ Len(local.tokens) > 0 =>
                  LET verb == lower(local.tokens[1])
                  IN  /\ verb \notin known
                            <=> result.raised = "SyntaxUnknownCommand"
                      /\ (verb \in {"list", "count"}
                            /\ Len(local.tokens) = 1) =>
                              result = Returned(UnaryCommand(verb, <<>>))
                      /\ (verb = "delete" /\ Len(local.tokens) = 1) =>
                              result.raised \in SyntaxErrors

\* the verb in capitals and nothing after it
C20_Witness ==
    /\ pc = "returned"
    /\ local.fn = "parse"
    /\ local.tokens = <<"LIST">>
    /\ result = Returned(UnaryCommand("list", <<>>))


(***************************************************************************)
(* Size tokens.                                                            *)
(***************************************************************************)
SizeTested == pc = "returned" /\ local.fn = "SizeUnit"

\* the token read with its unit in lower case
SizeForm == size_unit_pattern_match(lower_chars(chars(local.token)))

\* C24: SizeUnit matches exactly the tokens of the form <number><unit>, the
\* unit in either case, and captures the integer number x multiplier, the
\* multiplier 1, 1000, 1_000_000, 1_000_000_000 for b, kb, mb, gb; 10.7gb
\* gives 10_700_000_000.
C24_SizeUnitCaseInsensitive ==
    SizeTested =>
        /\ result.matched = SizeForm.matched
        /\ result.matched =>
              result.captured =
                  <<int_of_product(SizeForm.whole, SizeForm.fraction,
                                   unit_to_multiple(SizeForm.unit))>>
        /\ local.token = "10.7gb" =>
              result.captured =
                  << <<"1", "0", "7", "0", "0", "0", "0", "0", "0", "0",
                       "0">> >>
        /\ local.token = "10kb" =>
              result.captured = << <<"1", "0", "0", "0", "0">> >>


(***************************************************************************)
(* Phrase matching.                                                        *)
(***************************************************************************)
PhraseTried == pc = "returned" /\ local.fn = "try_phrase_match"

\* the token under the cursor, the empty string past the end
TokenAt(tokens, i) == IF i >= Len(tokens) THEN "" ELSE tokens[i + 1]

\* where the cursor stands after the first k patterns, each tested on the
\* token under the cursor, when none of them fails
CursorAfter(patterns, tokens) ==
    LET cur[k \in 0..Len(patterns)] ==
            IF k = 0 THEN 0
            ELSE cur[k - 1]
                 + (IF pattern_test(patterns[k],
                                    TokenAt(tokens, cur[k - 1])).consumed
                    THEN 1 ELSE 0)
    IN  cur

\* what the k-th pattern answers
AnswerOf(patterns, tokens, k) ==
    pattern_test(patterns[k],
                 TokenAt(tokens, CursorAfter(patterns, tokens)[k - 1]))

\* the captures of the patterns from the k-th on, in pattern order
RECURSIVE CapturesFrom(_, _, _)
CapturesFrom(patterns, tokens, k) ==
    IF k > Len(patterns) THEN <<>>
    ELSE AnswerOf(patterns, tokens, k).captured
             \o CapturesFrom(patterns, tokens, k + 1)

\* C22: try_phrase_match returns no match iff a pattern fails on the token
\* under the cursor; otherwise the captures in pattern order, negated iff a
\* pattern consumed a "not", tokens_consumed the number of patterns that
\* consumed; past the end the patterns are tested on the empty string, so an
\* optional pattern matches there and a String pattern does not.
C22_PhraseMatch ==
    PhraseTried /\ result.raised = "" =>
        LET ps == local.patterns
            ts == local.tokens
            failed == {k \in 1..Len(ps) :
                         /\ \A j \in 1..(k - 1) : AnswerOf(ps, ts, j).matched
                         /\ ~AnswerOf(ps, ts, k).matched}
        IN  /\ result.matched = (failed = {})
            /\ result.matched =>
                  /\ result.captures = CapturesFrom(ps, ts, 1)
                  /\ result.negated =
                        (\E k \in 1..Len(ps) : AnswerOf(ps, ts, k).negated)
                  /\ result.tokens_consumed =
                        Cardinality({k \in 1..Len(ps) :
                                        AnswerOf(ps, ts, k).consumed})
            /\ ps = <<Opt(Lit("that"))>> /\ ts = <<>> => result.matched
            /\ ps = <<Lit("is"), String>> /\ ts = <<"is">> => ~result.matched

\* a phrase matched with a pattern that consumed nothing and a capture
C22_Witness ==
    /\ PhraseTried
    /\ result.raised = ""
    /\ result.matched
    /\ result.negated
    /\ result.tokens_consumed = 2
    /\ Len(local.patterns) = 3
    /\ result.captures /= <<>>


(***************************************************************************)
(* Predicate phrases.                                                      *)
(***************************************************************************)
\* the tokens from the scan position on
RestOfTokens == SubSeq(local.tokens, local.i + 1, Len(local.tokens))

\* what the d-th phrase of the table answers at the scan position
PhraseAt(d) == try_phrase_match(PATTERNS[d].patterns, RestOfTokens)

\* the phrases that match at the scan position
Winners == {d \in 1..Len(PATTERNS) : PhraseAt(d).matched}

FirstWinner == CHOOSE d \in Winners : \A e \in Winners : d <= e

\* the filter a phrase of the table stands for
PhraseFilter(d, captures) ==
    CASE d = 4 -> FilterMatches(captures[1])
      [] d = 5 -> FilterIsEmpty
      [] d = 6 -> FilterSize("FilterSizeGreater", captures[1])
      [] d = 11 -> FilterIsHidden
      [] OTHER -> construct(PATTERNS[d].filter_constructor, captures)

\* one turn of the scan
ScanTurn ==
    pc = "parse_preds" =>
        /\ IF local.i >= Len(local.tokens)
           THEN /\ pc' = "returned"
                /\ result'.raised = ""
                /\ result'.filters = local.filters
           ELSE IF Winners = {}
           THEN /\ pc' = "returned"
                /\ IF local.trailing_ok
                   THEN /\ result'.raised = ""
                        /\ result'.filters = local.filters
                   ELSE /\ result'.raised = "SyntaxNoMatchingPattern"
                        /\ result'.token = local.tokens[local.i + 1]
           ELSE /\ pc' = "parse_preds"
                /\ local'.i = local.i + PhraseAt(FirstWinner).tokens_consumed
                /\ local'.filters =
                      Append(local.filters,
                             IF PhraseAt(FirstWinner).negated
                             THEN negate(PhraseFilter(FirstWinner,
                                      PhraseAt(FirstWinner).captures))
                             ELSE PhraseFilter(FirstWinner,
                                      PhraseAt(FirstWinner).captures))
        /\ pc' = "returned" =>
              /\ result'.raised =
                    parse_preds(local.tokens, Root, local.trailing_ok).raised
              /\ result'.filters =
                    parse_preds(local.tokens, Root, local.trailing_ok).filters

\* C21: parse_preds scans left to right; at each position the first phrase
\* of the table that matches wins, its filter is built from the captures,
\* negated iff the phrase matched a "not", and appended, and the scan goes on
\* after the consumed tokens; when no phrase matches it raises
\* SyntaxNoMatchingPattern naming the token there, or stops without error
\* when trailing input is allowed.
C21_FirstPhraseWins == [][ScanTurn]_vars

\* two phrases parsed, the first of them negated
C21_Witness ==
    /\ pc = "returned"
    /\ local.fn = "parse_preds"
    /\ result.raised = ""
    /\ result.filters = <<FilterIsNotHidden, FilterIsHidden>>

\* every phrase that matches at the scan position consumes at least one
\* token and no more than are left
ConsumptionBounded ==
    pc = "parse_preds" =>
        /\ local.i <= Len(local.tokens)
        /\ \A d \in Winners :
              /\ PhraseAt(d).tokens_consumed >= 1
              /\ PhraseAt(d).tokens_consumed <= Len(RestOfTokens)

\* a turn returns, or moves the scan position on and not past the end: the
\* tokens left get fewer with every turn, so the turns come to an end
ScanAdvances ==
    pc = "parse_preds" =>
        /\ ConsumptionBounded
        /\ \/ pc' = "returned"
           \/ /\ pc' = "parse_preds"
              /\ local'.tokens = local.tokens
              /\ local'.i > local.i
              /\ local'.i <= Len(local.tokens)

\* C30: parse_preds terminates on every token list: every match of a phrase
\* of PATTERNS consumes at least one token and at most the tokens left, so
\* the scan position strictly increases and never passes the end.
C30_ParsePredsTerminates == [][ScanAdvances]_vars

\* the scan stands between two phrases
C30_Witness ==
    /\ pc = "parse_preds"
    /\ local.i > 0
    /\ local.i < Len(local.tokens)
    /\ Winners /= {}


(***************************************************************************)
(* Noun phrases.                                                           *)
(***************************************************************************)
NpParsed == pc = "returned" /\ local.fn = "parse_np" /\ result.raised = ""

\* how many adjectives the token list starts with
LeadingAdjectives(tokens) ==
    CHOOSE k \in 0..Len(tokens) :
        /\ \A j \in 1..k : tokens[j] \in {"all", "any", "empty", "hidden"}
        /\ k = Len(tokens)
              \/ tokens[k + 1] \notin {"all", "any", "empty", "hidden"}

AdjectiveFilter(token) ==
    CASE token \in {"all", "any"} -> FilterTrue
      [] token = "empty" -> FilterIsEmpty
      [] token = "hidden" -> FilterIsHidden

NounFilters(token) ==
    CASE token \in {"anything", "everything"} -> <<>>
      [] token = "files" -> <<FilterIsFile>>
      [] token \in {"folders", "directories", "dirs"} -> <<FilterIsDirectory>>
      [] token = "*.md" -> <<FilterIsLikeName("*.md")>>
      [] OTHER -> <<FilterIsExactly(<<Root \o <<token>> >>)>>

Tokenized == pc = "returned" /\ local.fn = "tokenize"

\* the command string read one character at a time: q the quote that is
\* open, tokens the tokens so far, open whether the last token goes on
ReadChars(cmdstr) ==
    LET rd[k \in 0..Len(cmdstr)] ==
            IF k = 0 THEN [q |-> "", tokens |-> <<>>, open |-> FALSE]
            ELSE LET p == rd[k - 1]
                     c == cmdstr[k]
                     n == Len(p.tokens)
                 IN  IF p.q /= ""
                     THEN IF c = p.q
                          THEN [p EXCEPT !.q = "", !.open = FALSE]
                          ELSE [p EXCEPT !.tokens[n] = Append(@, c)]
                     ELSE IF c = " " THEN [p EXCEPT !.open = FALSE]
                     ELSE IF c \in {"'", "\""}
                     THEN [q |-> c, tokens |-> Append(p.tokens, <<>>),
                           open |-> FALSE]
                     ELSE IF p.open
                     THEN [p EXCEPT !.tokens[n] = Append(@, c)]
                     ELSE [q |-> "", tokens |-> Append(p.tokens, <<c>>),
                           open |-> TRUE]
    IN  rd[Len(cmdstr)].tokens

\* C23: tokenize splits at the whitespace outside quotes, makes one token of
\* what stands between a quote and the next quote of the same kind (or the
\* end of the input), quotes removed and whitespace kept, returns no token
\* for empty or all-whitespace input, and changes no character.
C23_Tokenize ==
    Tokenized =>
        /\ result = ReadChars(local.cmdstr)
        /\ (\A k \in 1..Len(local.cmdstr) : local.cmdstr[k] = " ")
              => result = <<>>

\* a quoted token with whitespace in it after a word
C23_Witness ==
    /\ Tokenized
    /\ local.cmdstr = <<"a", " ", "'", " ", "B">>
    /\ result = << <<"a">>, <<" ", "B">> >>


(***************************************************************************)
(* Dry runs and the ledger.                                                *)
(***************************************************************************)
\* a delete called with dry_run=True that passed its checks
DryRunDone == pc = "idle" /\ pc' = "idle" /\ uuids' = uuids + 1
              /\ last'.cmd = "dry_delete"

\* C26: a dry-run delete moves no path and leaves the invocation a following
\* undo would take as it was: the same one, or none as before.
DryRunLeavesLedger ==
    DryRunDone =>
        /\ fs' = fs
        /\ \A ctx \in Contexts :
              get_last_invocation(invocation', invocation_op', ctx)
                  = get_last_invocation(invocation, invocation_op, ctx)

C26_DryRunLeavesLedger == [][DryRunLeavesLedger]_vars

(***************************************************************************)
(* Undoing every invocation.                                               *)
(***************************************************************************)
\* every invocation that was made has been undone
AllUndone == pc = "idle" /\ uuids >= 2 /\ invocation = <<>>

\* C27: after n destructive invocations in one context and n undos the tree
\* is the one before the first invocation, also when two invocations carry
\* the same time_invoked_ms.
C27_UndoAllRestoresTree == AllUndone => Tree(fs) = Tree(TreeToFs(ContextsTree))

\* the same, for invocations made in different milliseconds
UndoAllRestoresTreeWithoutTies ==
    AllUndone /\ clock >= 1 => Tree(fs) = Tree(TreeToFs(ContextsTree))


\* the op the loop of undo is about to reverse
UndoTurn == pc = "undo" /\ local.k <= Len(local.ops)
UndoneOp == local.ops[local.k]

\* every entry that exists at or below p before the step is there after it,
\* with the same content
KeptAt(p) ==
    \A q \in Subtree(fs, p) : exists(fs', q) /\ fs'[q] = fs[q]

UndoKeepsData ==
    UndoTurn =>
        /\ (UndoneOp.op_type \in {OP_TYPE_DELETE, OP_TYPE_RENAME, OP_TYPE_MOVE})
              => KeptAt(UndoneOp.path_before)
        /\ ( /\ UndoneOp.op_type = OP_TYPE_CREATE
             /\ is_dir(fs, UndoneOp.path_after)
             /\ Subtree(fs, UndoneOp.path_after) /= {UndoneOp.path_after} )
              => fs' = fs

\* the same, for commands stamped with different milliseconds
UndoKeepsDataWithoutTies ==
    \/ \E i, j \in 1..Len(invocation) :
          i /= j /\ invocation[i].time_invoked_ms = invocation[j].time_invoked_ms
    \/ UndoKeepsData
UndoDestroysNoDataWithoutTies == [][UndoKeepsDataWithoutTies]_vars

\* C28: undo destroys no data that exists when it runs: reversing a delete,
\* rename or move op never overwrites or replaces an entry that already
\* exists at path_before, and reversing a create op never removes a
\* directory that is not empty
C28_UndoDestroysNoData == [][UndoKeepsData]_vars


\* a whole traversal by FileSet.resolve that raised nothing
Traversed == pc = "returned" /\ local.fn = "resolve" /\ result.raised = ""

Yielded(paths) == {paths[k] : k \in 1..Len(paths)}
AtMostOnce(paths) ==
    \A j, k \in 1..Len(paths) : paths[j] = paths[k] => j = k

\* the paths of a set together with everything that exists below them
WithDescendants(paths) == UNION {Subtree(fs, p) : p \in paths}

\* the same filters given to the other generator and to the other policies
ResolvedAs(recurse) ==
    FileSet_resolve(fs, local.filters, local.special_files, recurse).yielded
IteratedAs(behavior) == iterate(fs, local.filters, behavior)

\* C29: on every tree and for every filter list the traversal ends having
\* yielded each path at most once, and only paths of the tree, under every
\* recursion policy, by FileSet.resolve and by LazyFileSet.iterate; the set
\* yielded under the include-children policy is the set yielded under the
\* exclude-children policy together with all descendants of those paths
C29_TraversalPolicies ==
    Traversed =>
        /\ AtMostOnce(result.yielded)
        /\ Yielded(result.yielded) \subseteq DOMAIN Tree(fs)
        /\ (local.recurse = INCLUDE_DIR_CHILDREN) =>
              Yielded(result.yielded)
                  = WithDescendants(Yielded(ResolvedAs(EXCLUDE_DIR_CHILDREN)))
        /\ \A behavior \in {DEFAULT, ALWAYS_INCLUDE_CHILDREN,
                            ALWAYS_EXCLUDE_CHILDREN} :
              /\ AtMostOnce(IteratedAs(behavior))
              /\ Yielded(IteratedAs(behavior)) \subseteq DOMAIN Tree(fs)
        /\ Yielded(IteratedAs(ALWAYS_INCLUDE_CHILDREN))
              = WithDescendants(Yielded(IteratedAs(ALWAYS_EXCLUDE_CHILDREN)))

\* an include-children traversal that yielded a directory for the filter
\* and, below it, an entry the exclude-children traversal leaves out
C29_Witness ==
    /\ Traversed
    /\ local.recurse = INCLUDE_DIR_CHILDREN
    /\ \E p \in Yielded(ResolvedAs(EXCLUDE_DIR_CHILDREN)) :
          /\ is_dir(fs, p)
          /\ \E q \in Yielded(result.yielded) :
                /\ q /= p
                /\ IsPrefix(p, q)
                /\ q \notin Yielded(ResolvedAs(EXCLUDE_DIR_CHILDREN))
                /\ Len(q) > Len(p) + 1

=============================================================================
